---- MODULE Spec2Model ----
(***************************************************************************)
(* Model of uniws-rs: the wildcard byte-pattern matcher                    *)
(* (src/src/signature.rs), the patch executor (src/src/patch_info.rs) and  *)
(* the descriptor builders (src/src/patch_info.rs, src/src/config.rs).     *)
(*                                                                         *)
(* Rust values are represented as follows:                                 *)
(*   Option<T>   a sequence of length <= 1: None = <<>>, Some(v) = <<v>>   *)
(*   Vec<T>/&[T] a sequence; Rust index i is TLA+ index i + 1              *)
(*   &str        a sequence of one-character strings                       *)
(***************************************************************************)
EXTENDS Integers, Sequences, FiniteSets, TLC

(***************************************************************************)
(* Bounds of the model.                                                    *)
(***************************************************************************)
MaxPatLen == 3
MaxHayLen == 3
MaxBufLen == 4
MaxOff == 1
MaxOccur == 2
MaxSigLen == 4
MaxWildLen == 3
MaxIdx == 2
MaxKeys == 3
MaxRuns == 2
MaxValLen == 4
MaxLines == 3
MaxChain == 258

\* u8::MAX + 1: the radix of u16::to_le_bytes
ByteRadix == 256

\* byte values the buffers and the exact slots are drawn from
Bytes == {0, 1}
\* resolutions handed to apply_patch: 0x0001 and 0x0100
Resolutions == {1, 256}

\* characters the values of `sig` and of `sigwild` are drawn from
SigChars == {"8", "0", "A", "f", "g", "+"}
WildChars == {"0", "1", "2"}
\* section names
Sections == {"X"}

None == <<>>
Some(v) == <<v>>
IsSome(o) == Len(o) = 1
Unwrap(o) == o[1]

\* (the empty string is a sequence of length 0)
SeqsUpTo(S, n) == UNION {[1..k -> S] : k \in 0..n}

\* Signature.pattern: Vec<Option<u8>>
Slots == {None} \cup {Some(b) : b \in Bytes}
Patterns == SeqsUpTo(Slots, MaxPatLen)
Haystacks == SeqsUpTo(Bytes, MaxHayLen)
Buffers == SeqsUpTo(Bytes, MaxBufLen)
Offsets == {None} \cup {Some(o) : o \in 0..MaxOff}
SigStrings == SeqsUpTo(SigChars, MaxSigLen)
WildStrings == SeqsUpTo(WildChars, MaxWildLen)

\* haystack[index..]
SliceFrom(s, index) == SubSeq(s, index + 1, Len(s))

(***************************************************************************)
(* Signature::search_at and Signature::try_find                            *)
(***************************************************************************)
RECURSIVE search_slots(_, _, _, _)
\* the loop `for i in 0..self.pattern.len()` of search_at, from slot i
search_slots(pattern, haystack, index, i) ==
    IF i >= Len(pattern) THEN Some(index)
    ELSE IF pattern[i + 1] = None THEN search_slots(pattern, haystack, index, i + 1)
    ELSE IF Unwrap(pattern[i + 1]) = haystack[i + index + 1]
         THEN search_slots(pattern, haystack, index, i + 1)
         ELSE None

\* mutant: the comparison loop skips the last slot of the pattern
search_at_skip_last(pattern, haystack, index) ==
    IF Len(pattern) > Len(SliceFrom(haystack, index)) THEN None
    ELSE IF Len(pattern) = 0 THEN Some(index)
    ELSE search_slots(SubSeq(pattern, 1, Len(pattern) - 1), haystack, index, 0)

search_at(pattern, haystack, index) ==
    IF Len(pattern) > Len(SliceFrom(haystack, index)) THEN None
    ELSE search_slots(pattern, haystack, index, 0)

RECURSIVE try_find_from(_, _, _)
\* the loop `for i in 0..haystack.len()` of try_find, from offset i
try_find_from(pattern, haystack, i) ==
    IF i >= Len(haystack) THEN None
    ELSE IF Len(haystack) - i < Len(pattern) THEN None
    ELSE IF IsSome(search_at(pattern, haystack, i)) THEN search_at(pattern, haystack, i)
    ELSE try_find_from(pattern, haystack, i + 1)

try_find(pattern, haystack) == try_find_from(pattern, haystack, 0)

(***************************************************************************)
(* u16::to_le_bytes and the indexed writes of PatchInfo::apply_patch       *)
(***************************************************************************)
to_le_bytes(v) == <<v % ByteRadix, v \div ByteRadix>>

\* a buffer under mutation: `ok` turns FALSE at the first index out of bounds,
\* which panics; the writes before it have happened
\* mutant: the byte is stored one index too far
write_byte_off_by_one(st, base, pos, b) ==
    IF ~st.ok THEN st
    ELSE IF base + pos + 1 < Len(st.buf)
         THEN [buf |-> [st.buf EXCEPT ![base + pos + 2] = b], ok |-> TRUE]
         ELSE [buf |-> st.buf, ok |-> FALSE]

\* data[pos] = b, with data = buf[base..] (pos is relative to the slice)
write_byte(st, base, pos, b) ==
    IF ~st.ok THEN st
    ELSE IF base + pos < Len(st.buf)
         THEN [buf |-> [st.buf EXCEPT ![base + pos + 1] = b], ok |-> TRUE]
         ELSE [buf |-> st.buf, ok |-> FALSE]

\* mutant: the low byte is stored once more after the two bytes
write_le_wide(st, base, offset, bytes) ==
    write_byte(write_byte(write_byte(st, base, offset, bytes[1]), base, offset + 1, bytes[2]),
               base, offset + 2, bytes[1])

\* data[off] = bytes[0]; data[off + 1] = bytes[1];
write_le(st, base, offset, bytes) ==
    write_byte(write_byte(st, base, offset, bytes[1]), base, offset + 1, bytes[2])

\* mutant: the two bytes are stored high byte first
patch_writes_be(b, base, index, xo, yo, xr, yr) ==
    LET s0 == [buf |-> b, ok |-> TRUE]
        x_bytes == <<to_le_bytes(xr)[2], to_le_bytes(xr)[1]>>
        y_bytes == <<to_le_bytes(yr)[2], to_le_bytes(yr)[1]>>
        s1 == IF IsSome(xo) THEN write_le(s0, base, index + Unwrap(xo), x_bytes) ELSE s0
    IN  IF IsSome(yo) THEN write_le(s1, base, index + Unwrap(yo), y_bytes) ELSE s1

\* the body of the `Some(index)` arm up to the re-slicing
patch_writes(b, base, index, xo, yo, xr, yr) ==
    LET s0 == [buf |-> b, ok |-> TRUE]
        x_bytes == to_le_bytes(xr)
        y_bytes == to_le_bytes(yr)
        s1 == IF IsSome(xo) THEN write_le(s0, base, index + Unwrap(xo), x_bytes) ELSE s0
    IN  IF IsSome(yo) THEN write_le(s1, base, index + Unwrap(yo), y_bytes) ELSE s1

\* mutant: the next search resumes at the match itself
next_base_same(base, index, pattern) == base + index

\* data = &mut data[index + self.signature.pattern.len()..]
next_base(base, index, pattern) == base + index + Len(pattern)

(***************************************************************************)
(* Result<T, Error>, and a panic                                           *)
(***************************************************************************)
Ok(v) == [tag |-> "Ok", val |-> v]
\* Error::ConfigError(ConfigError::MissingRequiredField { section, field })
config_missing_field(section, field) ==
    [tag |-> "Err", kind |-> "MissingRequiredField", section |-> section,
     field |-> field, msg |-> ""]
\* Error::ConfigError(ConfigError::FieldParseError { section, field, msg })
config_field_parse(section, field, msg) ==
    [tag |-> "Err", kind |-> "FieldParseError", section |-> section,
     field |-> field, msg |-> msg]
\* Error::ConfigError(ConfigError::Other(msg))
config_error(msg) ==
    [tag |-> "Err", kind |-> "Other", section |-> "", field |-> "", msg |-> msg]
\* a failed assert_eq!, an index out of bounds
Panic == [tag |-> "Panic"]
IsOk(r) == r.tag = "Ok"

(***************************************************************************)
(* Signature::from_string and Signature::new                               *)
(***************************************************************************)
LowerDigits == <<"0", "1", "2", "3", "4", "5", "6", "7", "8", "9",
                 "a", "b", "c", "d", "e", "f">>
UpperDigits == <<"0", "1", "2", "3", "4", "5", "6", "7", "8", "9",
                 "A", "B", "C", "D", "E", "F">>

\* char::to_digit(16)
to_digit(c) ==
    IF \E i \in 1..16 : LowerDigits[i] = c
    THEN Some((CHOOSE i \in 1..16 : LowerDigits[i] = c) - 1)
    ELSE IF \E i \in 1..16 : UpperDigits[i] = c
    THEN Some((CHOOSE i \in 1..16 : UpperDigits[i] = c) - 1)
    ELSE None

RECURSIVE radix_digits(_, _)
\* the digit loop of u8::from_str_radix(_, 16): None on a character that is
\* no digit and on a value above u8::MAX
radix_digits(digits, acc) ==
    IF digits = <<>> THEN Some(acc)
    ELSE IF to_digit(Head(digits)) = None THEN None
    ELSE IF acc * 16 + Unwrap(to_digit(Head(digits))) > 255 THEN None
    ELSE radix_digits(Tail(digits), acc * 16 + Unwrap(to_digit(Head(digits))))

\* u8::from_str_radix(src, 16).ok(): an unsigned type takes a leading "+",
\* and no "-"
from_str_radix(src) ==
    IF src = <<>> THEN None
    ELSE IF Len(src) = 1 /\ src[1] \in {"+", "-"} THEN None
    ELSE IF src[1] = "+" THEN radix_digits(Tail(src), 0)
    ELSE radix_digits(src, 0)

RECURSIVE read_sig_from(_, _, _, _)
\* (0..sig.len()).step_by(2).map(..).collect(), from x with acc collected
read_sig_from(section, sig, x, acc) ==
    IF x >= Len(sig) THEN Ok(acc)
    ELSE IF x + 1 >= Len(sig)
    THEN config_field_parse(section, "sig", "Invalid hex string length")
    ELSE IF from_str_radix(<<sig[x + 1], sig[x + 2]>>) = None
    THEN config_field_parse(section, "sig", "Invalid hex byte pair")
    ELSE read_sig_from(section, sig, x + 2,
                       Append(acc, Unwrap(from_str_radix(<<sig[x + 1], sig[x + 2]>>))))

read_sig(section, sig) == read_sig_from(section, sig, 0, <<>>)

RECURSIVE read_sigwild_from(_, _, _)
\* sigwild.chars().map(..).collect(), from the characters cs with acc collected
read_sigwild_from(section, cs, acc) ==
    IF cs = <<>> THEN Ok(acc)
    ELSE IF Head(cs) = "0" THEN read_sigwild_from(section, Tail(cs), Append(acc, "Exact"))
    ELSE IF Head(cs) = "1" THEN read_sigwild_from(section, Tail(cs), Append(acc, "Wild"))
    ELSE config_field_parse(section, "sigwild", "Invalid sigwild character")

read_sigwild(section, sw) == read_sigwild_from(section, sw, <<>>)

\* mutant: the arms of the match on the flag are exchanged
Signature_new_swapped(sig, wild) ==
    IF Len(sig) # Len(wild) THEN Panic
    ELSE Ok([k \in 1..Len(sig) |-> IF wild[k] = "Wild" THEN Some(sig[k]) ELSE None])

\* Signature::new: Ok(pattern), or the panic of assert_eq!
Signature_new(sig, wild) ==
    IF Len(sig) # Len(wild) THEN Panic
    ELSE Ok([k \in 1..Len(sig) |-> IF wild[k] = "Wild" THEN None ELSE Some(sig[k])])

\* Signature::from_string
from_string(section, sig, sw) ==
    IF ~IsOk(read_sig(section, sig)) THEN read_sig(section, sig)
    ELSE IF ~IsOk(read_sigwild(section, sw)) THEN read_sigwild(section, sw)
    ELSE Signature_new(read_sig(section, sig).val, read_sigwild(section, sw).val)

(***************************************************************************)
(* Items and the field access of PatchInfo::from_items                     *)
(***************************************************************************)
DecDigits == <<"0", "1", "2", "3", "4", "5", "6", "7", "8", "9">>

\* the characters of the field names, which are &'static str
chars(field_name) ==
    CASE field_name = "sig" -> <<"s", "i", "g">>
      [] field_name = "sigwild" -> <<"s", "i", "g", "w", "i", "l", "d">>
      [] field_name = "modfile" -> <<"m", "o", "d", "f", "i", "l", "e">>
      [] field_name = "undofile" -> <<"u", "n", "d", "o", "f", "i", "l", "e">>
      [] field_name = "xoffset" -> <<"x", "o", "f", "f", "s", "e", "t">>
      [] field_name = "yoffset" -> <<"y", "o", "f", "f", "s", "e", "t">>
      [] field_name = "occur" -> <<"o", "c", "c", "u", "r">>
      [] field_name = "setx" -> <<"s", "e", "t", "x">>
      [] field_name = "sety" -> <<"s", "e", "t", "y">>
      [] field_name = "details" -> <<"d", "e", "t", "a", "i", "l", "s">>
      [] field_name = "checkfile" -> <<"c", "h", "e", "c", "k", "f", "i", "l", "e">>
      [] field_name = "version" -> <<"v", "e", "r", "s", "i", "o", "n">>
      [] field_name = "Apps" -> <<"A", "p", "p", "s">>

RECURSIVE to_string(_)
\* the Display of an unsigned integer: its decimal digits, no leading zero
to_string(n) ==
    IF n < 10 THEN <<DecDigits[n + 1]>>
    ELSE to_string(n \div 10) \o <<DecDigits[(n % 10) + 1]>>

\* the key format!("p{prefix}{field_name}"), or field_name without an index
key(index, field_name) ==
    IF index = None THEN chars(field_name)
    ELSE <<"p">> \o to_string(Unwrap(index)) \o chars(field_name)

\* HashMap::get
get(items, k) == IF k \in DOMAIN items THEN Some(items[k]) ELSE None

\* Result::ok
ok(r) == IF IsOk(r) THEN Some(r.val) ELSE None

\* Field::get
field_get(section, items, index, field_name) ==
    IF get(items, key(index, field_name)) # None
    THEN Ok(Unwrap(get(items, key(index, field_name))))
    ELSE config_missing_field(section, field_name)

\* v fits an unsigned type of `bits` bits; the u32 and u64 values drawn here
\* have too few digits to pass u32::MAX (and TLC's integers end below it)
fits(v, bits) == bits > 16 \/ (bits = 16 /\ v <= 65535) \/ (bits = 8 /\ v <= 255)

RECURSIVE dec_digits(_, _, _)
\* the digit loop of <uN as FromStr>::from_str: None on a character that
\* is no decimal digit and on overflow
dec_digits(digits, acc, bits) ==
    IF digits = <<>> THEN Some(acc)
    ELSE IF ~(\E i \in 1..10 : DecDigits[i] = Head(digits)) THEN None
    ELSE LET d == (CHOOSE i \in 1..10 : DecDigits[i] = Head(digits)) - 1
         IN  IF ~fits(acc * 10 + d, bits) THEN None
             ELSE dec_digits(Tail(digits), acc * 10 + d, bits)

\* str::parse::<uN>().ok() for the unsigned type of `bits` bits
parse_unsigned(src, bits) ==
    IF src = <<>> THEN None
    ELSE IF Len(src) = 1 /\ src[1] \in {"+", "-"} THEN None
    ELSE IF src[1] = "+" THEN dec_digits(Tail(src), 0, bits)
    ELSE dec_digits(src, 0, bits)

\* Field::parse::<T>
field_parse(section, items, index, field_name, bits) ==
    IF ~IsOk(field_get(section, items, index, field_name))
    THEN field_get(section, items, index, field_name)
    ELSE IF parse_unsigned(field_get(section, items, index, field_name).val, bits) = None
    THEN config_field_parse(section, field_name, "parse")
    ELSE Ok(Unwrap(parse_unsigned(field_get(section, items, index, field_name).val, bits)))

\* mutant: an xoffset that does not parse is an error of the build
patch_fields_strict(section, items, index, sigfields) ==
    IF ~IsOk(field_get(section, items, index, "modfile"))
    THEN field_get(section, items, index, "modfile")
    ELSE IF field_parse(section, items, index, "xoffset", 64).tag = "Err"
            /\ field_parse(section, items, index, "xoffset", 64).kind = "FieldParseError"
    THEN field_parse(section, items, index, "xoffset", 64)
    ELSE IF ~IsOk(field_parse(section, items, index, "occur", 32))
    THEN field_parse(section, items, index, "occur", 32)
    ELSE Ok([sigfields |-> sigfields,
             modfile |-> field_get(section, items, index, "modfile").val,
             undofile |-> ok(field_get(section, items, index, "undofile")),
             xoffset |-> ok(field_parse(section, items, index, "xoffset", 64)),
             yoffset |-> ok(field_parse(section, items, index, "yoffset", 64)),
             occur |-> field_parse(section, items, index, "occur", 32).val,
             setx |-> ok(field_parse(section, items, index, "setx", 16)),
             sety |-> ok(field_parse(section, items, index, "sety", 16))])

\* the struct literal of both from_items, after the signature fields
patch_fields(section, items, index, sigfields) ==
    IF ~IsOk(field_get(section, items, index, "modfile"))
    THEN field_get(section, items, index, "modfile")
    ELSE IF ~IsOk(field_parse(section, items, index, "occur", 32))
    THEN field_parse(section, items, index, "occur", 32)
    ELSE Ok([sigfields |-> sigfields,
             modfile |-> field_get(section, items, index, "modfile").val,
             undofile |-> ok(field_get(section, items, index, "undofile")),
             xoffset |-> ok(field_parse(section, items, index, "xoffset", 64)),
             yoffset |-> ok(field_parse(section, items, index, "yoffset", 64)),
             occur |-> field_parse(section, items, index, "occur", 32).val,
             setx |-> ok(field_parse(section, items, index, "setx", 16)),
             sety |-> ok(field_parse(section, items, index, "sety", 16))])

\* patch_info.rs: PatchInfo::from_items
PatchInfo_from_items(section, items, index) ==
    IF ~IsOk(field_get(section, items, index, "sig"))
    THEN field_get(section, items, index, "sig")
    ELSE IF ~IsOk(field_get(section, items, index, "sigwild"))
    THEN field_get(section, items, index, "sigwild")
    ELSE LET signature == from_string(section,
                                      field_get(section, items, index, "sig").val,
                                      field_get(section, items, index, "sigwild").val)
         IN  IF ~IsOk(signature) THEN signature
             ELSE patch_fields(section, items, index, [pattern |-> signature.val])

RECURSIVE config_sigwild_from(_, _)
\* config.rs: sigwild.chars().map(..).collect() of from_items
config_sigwild_from(cs, acc) ==
    IF cs = <<>> THEN Ok(acc)
    ELSE IF Head(cs) = "0" THEN config_sigwild_from(Tail(cs), Append(acc, FALSE))
    ELSE IF Head(cs) = "1" THEN config_sigwild_from(Tail(cs), Append(acc, TRUE))
    ELSE config_error("Invalid sigwild character")

\* config.rs: PatchInfo::from_items, which keeps sig and sigwild apart
config_PatchInfo_from_items(section, items, index) ==
    IF ~IsOk(field_get(section, items, index, "sig"))
    THEN field_get(section, items, index, "sig")
    ELSE IF ~IsOk(read_sig(section, field_get(section, items, index, "sig").val))
    THEN read_sig(section, field_get(section, items, index, "sig").val)
    ELSE IF ~IsOk(field_get(section, items, index, "sigwild"))
    THEN field_get(section, items, index, "sigwild")
    ELSE IF ~IsOk(config_sigwild_from(field_get(section, items, index, "sigwild").val, <<>>))
    THEN config_sigwild_from(field_get(section, items, index, "sigwild").val, <<>>)
    ELSE patch_fields(section, items, index,
            [sig |-> read_sig(section, field_get(section, items, index, "sig").val).val,
             sigwild |-> config_sigwild_from(
                            field_get(section, items, index, "sigwild").val, <<>>).val])

\* the PatchInfo::from_items that AppSection::from_items calls: the one of
\* config.rs by the names in scope there, the one of patch_info.rs by the
\* PatchInfo that main.rs takes out of AppSection.patches
from_items(builder, section, items, index) ==
    IF builder = "config" THEN config_PatchInfo_from_items(section, items, index)
    ELSE PatchInfo_from_items(section, items, index)

\* the escape \013\010 of `details`, and LINE_ENDING (cfg(not(windows)))
CrLfEscape == <<"\\", "0", "1", "3", "\\", "0", "1", "0">>
LINE_ENDING == <<"\n">>

RECURSIVE replace_escape(_)
\* details.replace(r#"\013\010"#, LINE_ENDING)
replace_escape(cs) ==
    IF cs = <<>> THEN <<>>
    ELSE IF Len(cs) >= 8 /\ SubSeq(cs, 1, 8) = CrLfEscape
    THEN LINE_ENDING \o replace_escape(SubSeq(cs, 9, Len(cs)))
    ELSE <<Head(cs)>> \o replace_escape(Tail(cs))

\* idx += 1 on a u8: past u8::MAX a build with overflow checks panics and a
\* build without them wraps to 0
add_one_u8(i) == IF i < 255 THEN {Ok(i + 1)} ELSE {Panic, Ok(0)}

(***************************************************************************)
(* The parsers of config.rs. A parser takes the input left and yields      *)
(* Done(value, input left) or Fail(input): a backtracking error, after     *)
(* which alt, opt and repeat go on from the input they were entered with.  *)
(***************************************************************************)
Done(v, r) == [ok |-> TRUE, val |-> v, rest |-> r]
Fail(i) == [ok |-> FALSE, val |-> <<>>, rest |-> i]

\* the match on a parser's result r: F of it, or `other` when it failed
if_ok(r, F(_), other) == IF r.ok THEN F(r) ELSE other

\* the `?` after a parser inside a parser entered with input i
and_then(i, r, F(_)) == if_ok(r, F, Fail(i))

\* alt((first, second))
alt(first, second) == IF first.ok THEN first ELSE second

\* the number of leading characters of i that are in cs
prefix_len(i, cs) ==
    CHOOSE n \in 0..Len(i) :
        /\ \A k \in 1..n : i[k] \in cs
        /\ n < Len(i) => i[n + 1] \notin cs

\* the number of characters of i before the first c, Len(i) without a c
offset_of(i, c) ==
    CHOOSE n \in 0..Len(i) :
        /\ \A k \in 1..n : i[k] # c
        /\ n < Len(i) => i[n + 1] = c

\* the first n characters of i as the value, when they are min at least
split_at(min, n, i) ==
    IF n < min THEN Fail(i)
    ELSE Done(SubSeq(i, 1, n), SubSeq(i, n + 1, Len(i)))

\* a character literal as a parser, and one_of
one_of(cs, i) == IF i # <<>> /\ i[1] \in cs THEN Done(i[1], Tail(i)) ELSE Fail(i)
literal(c, i) == one_of({c}, i)

\* take_until(min.., c): the input before the first c, which must be there
take_until(min, c, i) ==
    IF \A k \in 1..Len(i) : i[k] # c THEN Fail(i)
    ELSE split_at(min, offset_of(i, c), i)

\* take_while(min.., cs)
take_while(min, cs, i) == split_at(min, prefix_len(i, cs), i)

AsciiAlphanumeric ==
    {"0", "1", "2", "3", "4", "5", "6", "7", "8", "9",
     "a", "b", "c", "d", "e", "f", "g", "h", "i", "j", "k", "l", "m",
     "n", "o", "p", "q", "r", "s", "t", "u", "v", "w", "x", "y", "z",
     "A", "B", "C", "D", "E", "F", "G", "H", "I", "J", "K", "L", "M",
     "N", "O", "P", "Q", "R", "S", "T", "U", "V", "W", "X", "Y", "Z"}
Space == {" ", "\t"}
Multispace == {" ", "\t", "\r", "\n"}
\* char::is_whitespace on the characters of the model
WhiteSpace == {" ", "\t", "\r", "\n", "\f"}

alphanumeric1(i) == take_while(1, AsciiAlphanumeric, i)
space0(i) == take_while(0, Space, i)
multispace1(i) == take_while(1, Multispace, i)

\* line_ending: "\n" or "\r\n"
line_ending(i) ==
    IF i # <<>> /\ i[1] = "\n" THEN Done(<<"\n">>, Tail(i))
    ELSE IF Len(i) >= 2 /\ i[1] = "\r" /\ i[2] = "\n"
    THEN Done(<<"\r", "\n">>, SubSeq(i, 3, Len(i)))
    ELSE Fail(i)

\* till_line_ending: the input before "\n", "\r\n" or its end; a '\r' that
\* no '\n' follows is an error
till_line_ending(i) ==
    if_ok(take_while(0, {i[k] : k \in 1..Len(i)} \ {"\r", "\n"}, i),
          LAMBDA line : IF line.rest # <<>> /\ line.rest[1] = "\r"
                            /\ (Len(line.rest) < 2 \/ line.rest[2] # "\n")
                         THEN Fail(i) ELSE line,
          Fail(i))

\* str::trim_end
trim_end(s) ==
    SubSeq(s, 1, CHOOSE m \in 0..Len(s) :
                    /\ \A k \in (m + 1)..Len(s) : s[k] \in WhiteSpace
                    /\ m > 0 => s[m] \notin WhiteSpace)

\* header: '[', take_until(1.., ']'), ']'
header(i) ==
    and_then(i, literal("[", i), LAMBDA open :
    and_then(i, take_until(1, "]", open.rest), LAMBDA name :
    and_then(i, literal("]", name.rest), LAMBDA close :
        Done(name.val, close.rest))))

\* comment: one_of((';', '#')), till_line_ending, line_ending
comment(i) ==
    and_then(i, one_of({";", "#"}, i), LAMBDA mark :
    and_then(i, till_line_ending(mark.rest), LAMBDA text :
    and_then(i, line_ending(text.rest), LAMBDA end :
        Done(<<>>, end.rest))))

\* ws: alt((comment, multispace1.void()))
ws(i) == alt(comment(i), multispace1(i))

RECURSIVE repeat_ws(_)
\* repeat(1.., ws) after its first ws, and opt of it: the input left
repeat_ws(i) == if_ok(ws(i), LAMBDA w : repeat_ws(w.rest), i)

whitespace_and_comments(i) == Done(<<>>, repeat_ws(i))

\* (delimited('"', take_until(0.., '"'), '"'), line_ending).map(|(a, _)| a)
quoted(i) ==
    and_then(i, literal("\"", i), LAMBDA open :
    and_then(i, take_until(0, "\"", open.rest), LAMBDA body :
    and_then(i, literal("\"", body.rest), LAMBDA close :
    and_then(i, line_ending(close.rest), LAMBDA end :
        Done(body.val, end.rest)))))

\* till_line_ending.map(|s: &str| s.trim_end())
unquoted(i) ==
    and_then(i, till_line_ending(i), LAMBDA line : Done(trim_end(line.val), line.rest))

\* kv_pair
kv_pair(i) ==
    and_then(i, alphanumeric1(i), LAMBDA k :
    and_then(i, space0(k.rest), LAMBDA before :
    and_then(i, literal("=", before.rest), LAMBDA eq :
    and_then(i, space0(eq.rest), LAMBDA after :
    and_then(i, alt(quoted(after.rest), unquoted(after.rest)), LAMBDA v :
        Done(<<k.val, v.val>>, v.rest))))))

\* terminated(kv_pair, whitespace_and_comments)
terminated_kv_pair(i) ==
    and_then(i, kv_pair(i), LAMBDA kv :
        Done(kv.val, whitespace_and_comments(kv.rest).rest))

\* HashMap::insert
insert(map, k, v) == [j \in DOMAIN map \cup {k} |-> IF j = k THEN v ELSE map[j]]

RECURSIVE repeat_kv(_, _)
\* repeat(1.., terminated(kv_pair, whitespace_and_comments)) after its first
\* pair, collected into a HashMap: it ends at the first pair that fails
repeat_kv(i, acc) ==
    if_ok(terminated_kv_pair(i),
          LAMBDA kv : repeat_kv(kv.rest, insert(acc, kv.val[1], kv.val[2])),
          Done(acc, i))

\* parse_section; the repeat(1.., ..) fails without a first pair
parse_section(i) ==
    and_then(i, header(i), LAMBDA h :
    and_then(i, whitespace_and_comments(h.rest), LAMBDA w :
    and_then(i, terminated_kv_pair(w.rest), LAMBDA kv :
    and_then(i, repeat_kv(kv.rest, insert(<<>>, kv.val[1], kv.val[2])), LAMBDA kvs :
        Done(<<h.val, kvs.val>>, kvs.rest)))))

RECURSIVE repeat_section(_, _)
\* repeat(1.., parse_section) after its first section, collected into a
\* HashMap: it ends at the first section that fails
repeat_section(i, acc) ==
    if_ok(parse_section(i),
          LAMBDA sec : repeat_section(sec.rest, insert(acc, sec.val[1], sec.val[2])),
          Done(acc, i))

\* Error::ParseError(_), From<WinnowError>
parse_error == [tag |-> "Err", kind |-> "ParseError", section |-> "", field |-> "", msg |-> ""]

\* parse: ModalResult<RawConfig>; the repeat(1.., ..) fails without a first
\* section, and the input left over is dropped
parse(i) ==
    if_ok(take_until(0, "[", i), LAMBDA skipped :
    if_ok(parse_section(skipped.rest), LAMBDA sec :
        Ok(repeat_section(sec.rest, insert(<<>>, sec.val[1], sec.val[2])).val),
        parse_error), parse_error)

(***************************************************************************)
(* Config::get_apps                                                        *)
(***************************************************************************)
\* the orders in which HashMap::iter can yield the keys S
Orders(S) == {o \in [1..Cardinality(S) -> S] : \A a \in S : \E k \in DOMAIN o : o[k] = a}

\* the closure of filter_map: Some((rest, v)) or None
registry_entry(k, v) ==
    IF Len(k) < 1 THEN None
    ELSE IF parse_unsigned(Tail(k), 8) = None THEN None
    ELSE IF <<Head(k)>> = <<"a">> THEN Some(<<Unwrap(parse_unsigned(Tail(k), 8)), v>>)
    ELSE None

RECURSIVE filter_map(_, _)
\* apps.iter().filter_map(..).collect(), the keys coming in `order`
filter_map(map, order) ==
    IF order = <<>> THEN <<>>
    ELSE registry_entry(Head(order), map[Head(order)]) \o filter_map(map, Tail(order))

RECURSIVE sort_by_key(_)
\* slice::sort_by_key(|x| x.0): stable, equal keys keep their order
sort_by_key(v) ==
    IF v = <<>> THEN <<>>
    ELSE LET front == sort_by_key(SubSeq(v, 1, Len(v) - 1))
             e == v[Len(v)]
             n == Cardinality({k \in 1..Len(front) : front[k][1] <= e[1]})
         IN  SubSeq(front, 1, n) \o <<e>> \o SubSeq(front, n + 1, Len(front))

\* Config::get_apps, the keys of the Apps section iterated in `order`
get_apps(raw, order) ==
    IF get(raw, chars("Apps")) = None THEN config_error("Missing 'Apps' Section")
    ELSE IF get(raw[chars("Apps")], chars("version")) = None
    THEN config_error("Missing 'Apps.version'")
    ELSE LET sorted == sort_by_key(filter_map(raw[chars("Apps")], order))
         IN  Ok([version |-> raw[chars("Apps")][chars("version")],
                 apps |-> [k \in 1..Len(sorted) |-> sorted[k][2]]])

\* the orders HashMap::iter can take over the Apps section of raw
iter_orders(raw) ==
    IF get(raw, chars("Apps")) = None THEN {<<>>} ELSE Orders(DOMAIN raw[chars("Apps")])

(***************************************************************************)
(* State                                                                   *)
(***************************************************************************)
VARIABLES
    pc,        \* position of the operation under way
    pattern,   \* self.signature.pattern / self.pattern
    buf,       \* the haystack or the buffer behind `data`
    found,     \* try_find's return value
    xoffset, yoffset, occur,   \* fields of the PatchInfo
    x_res, y_res,              \* arguments of apply_patch
    base,      \* offset in buf at which the slice `data` starts
    iter,      \* iterations of `for _ in 0..self.occur` entered so far
    result,    \* apply_patch's return value: None until it returns
    orig,      \* history: the buffer at the call
    matches,   \* history: absolute offsets of the matches of this call
    section, signature, sigwild,   \* arguments of from_string
    sigres,    \* from_string's outcome: None until it ends
    items,     \* the section's HashMap<String, String>
    builder,   \* which PatchInfo::from_items the section is built with
    idx,       \* `idx` of AppSection::from_items
    patches,   \* `patches` of AppSection::from_items
    secres,    \* AppSection::from_items's outcome: None until it ends
    input,     \* the text handed to kv_pair, parse or Config::new
    kvres,     \* kv_pair's outcome: None until it ends
    parsed,    \* parse's outcome: None until it ends
    raw_config,    \* `raw_config` of Config::new and of get_apps
    apps,      \* `apps` of Config::new: None until get_apps has returned
    sections,  \* `sections` of Config::new
    outcomes,  \* history: the outcomes of the calls on this input, in order
    files,     \* the file system: the content of every path that is a file
    files0,    \* history: the file system when the descriptor under way began
    game_dir, width, height,   \* fields of the App
    descs,     \* `section.patches` of apply_patches
    iteration, \* `iteration` of apply_patch_to_file
    fileres    \* apply_patches's outcome: None until it ends

vars == <<pc, pattern, buf, found, xoffset, yoffset, occur, x_res, y_res,
          base, iter, result, orig, matches, section, signature, sigwild, sigres,
          items, builder, idx, patches, secres,
          input, kvres, parsed, raw_config, apps, sections, outcomes,
          files, files0, game_dir, width, height, descs, iteration, fileres>>

findVars == <<found>>
applyVars == <<xoffset, yoffset, occur, x_res, y_res, base, iter, result, orig, matches>>
sigVars == <<section, signature, sigwild, sigres>>
secVars == <<items, builder, idx, patches, secres>>
textVars == <<input, kvres, parsed>>
cfgVars == <<raw_config, apps, sections, outcomes>>
fileVars == <<files, files0, game_dir, width, height, descs, iteration, fileres>>

IdleFind == found = None
IdleApply ==
    /\ xoffset = None /\ yoffset = None /\ occur = 0
    /\ x_res = 0 /\ y_res = 0 /\ base = 0 /\ iter = 0
    /\ result = None /\ orig = <<>> /\ matches = <<>>
IdleSig == section = "" /\ signature = <<>> /\ sigwild = <<>> /\ sigres = None
IdleSec == items = <<>> /\ builder = "" /\ idx = 0 /\ patches = <<>> /\ secres = None
IdleText == input = <<>> /\ kvres = None /\ parsed = None
IdleCfg == raw_config = <<>> /\ apps = None /\ sections = <<>> /\ outcomes = <<>>
IdleFile ==
    /\ files = <<>> /\ files0 = <<>> /\ game_dir = None /\ width = None /\ height = None
    /\ descs = <<>> /\ iteration = 0 /\ fileres = None

(***************************************************************************)
(* Signature::try_find on every pattern and haystack of the bounds         *)
(***************************************************************************)
InitFind ==
    /\ pc = "find_call"
    /\ pattern \in Patterns
    /\ buf \in Haystacks
    /\ IdleFind /\ IdleApply /\ IdleSig /\ IdleSec
    /\ IdleText /\ IdleCfg /\ IdleFile

TryFind ==
    /\ pc = "find_call"
    /\ found' = try_find(pattern, buf)
    /\ pc' = "find_done"
    /\ UNCHANGED <<pattern, buf>>
    /\ UNCHANGED <<applyVars, sigVars, secVars>>
    /\ UNCHANGED <<textVars, cfgVars, fileVars>>

NextFind == TryFind

SpecFind == InitFind /\ [][NextFind]_vars

(***************************************************************************)
(* PatchInfo::apply_patch, one action per pass of its loop                 *)
(***************************************************************************)
InitApply ==
    /\ pc = "apply_loop"
    /\ pattern \in Patterns
    /\ buf \in Buffers
    /\ xoffset \in Offsets /\ yoffset \in Offsets
    /\ occur \in 0..MaxOccur
    /\ x_res \in Resolutions /\ y_res \in Resolutions
    /\ base = 0 /\ iter = 0 /\ result = None
    /\ orig = buf /\ matches = <<>>
    /\ IdleFind /\ IdleSig /\ IdleSec
    /\ IdleText /\ IdleCfg /\ IdleFile

\* `data` of apply_patch
data == SliceFrom(buf, base)

\* Some(index): both values are stored and the slice moves past the match
ApplyMatch ==
    /\ pc = "apply_loop" /\ iter < occur
    /\ IsSome(try_find(pattern, data))
    /\ LET index == Unwrap(try_find(pattern, data))
           st == patch_writes(buf, base, index, xoffset, yoffset, x_res, y_res)
       IN  /\ st.ok
           /\ buf' = st.buf
           /\ base' = next_base(base, index, pattern)
           /\ matches' = Append(matches, base + index)
    /\ iter' = iter + 1
    /\ UNCHANGED <<pc, pattern, found, xoffset, yoffset, occur, x_res, y_res, result, orig, sigVars, secVars>>
    /\ UNCHANGED <<textVars, cfgVars, fileVars>>

\* Some(index), and an indexed store is out of bounds: the call panics
ApplyPanic ==
    /\ pc = "apply_loop" /\ iter < occur
    /\ IsSome(try_find(pattern, data))
    /\ LET index == Unwrap(try_find(pattern, data))
           st == patch_writes(buf, base, index, xoffset, yoffset, x_res, y_res)
       IN  /\ ~st.ok
           /\ buf' = st.buf
           /\ matches' = Append(matches, base + index)
    /\ pc' = "apply_panic"
    /\ iter' = iter + 1
    /\ UNCHANGED <<pattern, found, xoffset, yoffset, occur, x_res, y_res, base, result, orig, sigVars, secVars>>
    /\ UNCHANGED <<textVars, cfgVars, fileVars>>

\* mutant: a failed search restores the buffer of the call
ApplyNotFound_rollback ==
    /\ pc = "apply_loop" /\ iter < occur
    /\ try_find(pattern, data) = None
    /\ result' = Some(FALSE)
    /\ pc' = "apply_done"
    /\ buf' = orig
    /\ UNCHANGED <<pattern, found, xoffset, yoffset, occur, x_res, y_res, base, iter, orig, matches, sigVars, secVars>>
    /\ UNCHANGED <<textVars, cfgVars, fileVars>>

\* None => return false
ApplyNotFound ==
    /\ pc = "apply_loop" /\ iter < occur
    /\ try_find(pattern, data) = None
    /\ result' = Some(FALSE)
    /\ pc' = "apply_done"
    /\ UNCHANGED <<pattern, buf, found, xoffset, yoffset, occur, x_res, y_res, base, iter, orig, matches, sigVars, secVars>>
    /\ UNCHANGED <<textVars, cfgVars, fileVars>>

\* the loop is exhausted: true
ApplyReturn ==
    /\ pc = "apply_loop" /\ iter = occur
    /\ result' = Some(TRUE)
    /\ pc' = "apply_done"
    /\ UNCHANGED <<pattern, buf, found, xoffset, yoffset, occur, x_res, y_res, base, iter, orig, matches, sigVars, secVars>>
    /\ UNCHANGED <<textVars, cfgVars, fileVars>>

NextApply == ApplyMatch \/ ApplyPanic \/ ApplyNotFound \/ ApplyReturn

SpecApply == InitApply /\ [][NextApply]_vars

(***************************************************************************)
(* Signature::from_string on every sig and sigwild of the bounds           *)
(***************************************************************************)
InitSig ==
    /\ pc = "sig_call"
    /\ section \in Sections
    /\ signature \in SigStrings
    /\ sigwild \in WildStrings
    /\ sigres = None
    /\ pattern = <<>> /\ buf = <<>>
    /\ IdleFind /\ IdleApply /\ IdleSec
    /\ IdleText /\ IdleCfg /\ IdleFile

FromString ==
    /\ pc = "sig_call"
    /\ sigres' = Some(from_string(section, signature, sigwild))
    /\ pc' = "sig_done"
    /\ UNCHANGED <<pattern, buf, section, signature, sigwild>>
    /\ UNCHANGED <<findVars, applyVars, secVars>>
    /\ UNCHANGED <<textVars, cfgVars, fileVars>>

NextSig == FromString

SpecSig == InitSig /\ [][NextSig]_vars

(***************************************************************************)
(* AppSection::from_items, one action per call of PatchInfo::from_items    *)
(***************************************************************************)
\* the indices a section of the bounds has keys for: None for the
\* unprefixed keys, Some(i) for the keys p{i}..
Indices == {None} \cup {Some(i) : i \in 1..MaxIdx}

\* the `index` argument of the i-th probe: None first, then Some(1), Some(2), ..
IndexOf(i) == IF i = 0 THEN None ELSE Some(i)

\* values of the keys drawn: present or not, well-formed or not
SigValues == {None, Some(<<"8", "0">>)}
SigwildValues == {None, Some(<<"0">>), Some(<<"0", "0">>)}
ModfileValues == {None, Some(<<"m">>)}
OccurValues == {None, Some(<<"1">>)}
DetailsValues == {None, Some(<<"a">> \o CrLfEscape)}
CheckfileValues == {None, Some(<<"c">>)}

\* the map with the keys whose value is Some
ItemsOf(sigs, wilds, mods, occs, details, checkfile) ==
    LET val(i, f) == CASE f = "sig" -> sigs[i]
                       [] f = "sigwild" -> wilds[i]
                       [] f = "modfile" -> mods[i]
                       [] f = "occur" -> occs[i]
                       [] f = "details" -> details
                       [] f = "checkfile" -> checkfile
        present == {p \in ((Indices \X {"sig", "sigwild", "modfile", "occur"})
                            \cup ({None} \X {"details", "checkfile"})) :
                        val(p[1], p[2]) # None}
    IN  [k \in {key(p[1], p[2]) : p \in present} |->
            LET p == CHOOSE q \in present : key(q[1], q[2]) = k
            IN  Unwrap(val(p[1], p[2]))]

\* the sections drawn: with details and checkfile, every choice of the patch
\* keys; without one of them (the patch keys are then never read), the
\* unprefixed patch complete and no prefixed key
HeaderOnly(sigs, wilds, mods, occs) ==
    /\ sigs = [i \in Indices |-> IF i = None THEN Some(<<"8", "0">>) ELSE None]
    /\ wilds = [i \in Indices |-> IF i = None THEN Some(<<"0">>) ELSE None]
    /\ mods = [i \in Indices |-> IF i = None THEN Some(<<"m">>) ELSE None]
    /\ occs = [i \in Indices |-> IF i = None THEN Some(<<"1">>) ELSE None]

InitSection ==
    /\ pc = "sec_call"
    /\ section \in Sections
    /\ builder \in {"config", "patch_info"}
    /\ \E sigs \in [Indices -> SigValues], wilds \in [Indices -> SigwildValues],
          mods \in [Indices -> ModfileValues], occs \in [Indices -> OccurValues],
          details \in DetailsValues, checkfile \in CheckfileValues :
            /\ (details = None \/ checkfile = None) => HeaderOnly(sigs, wilds, mods, occs)
            /\ items = ItemsOf(sigs, wilds, mods, occs, details, checkfile)
    /\ idx = 0 /\ patches = <<>> /\ secres = None
    /\ signature = <<>> /\ sigwild = <<>> /\ sigres = None
    /\ pattern = <<>> /\ buf = <<>>
    /\ IdleFind /\ IdleApply
    /\ IdleText /\ IdleCfg /\ IdleFile

\* from the entry to `let mut idx = 1`: details, checkfile and the patch of
\* the unprefixed keys, each ending the call when it fails
SectionBegin ==
    /\ pc = "sec_call"
    /\ IF get(items, key(None, "details")) = None
       THEN /\ secres' = Some(config_missing_field(section, "details"))
            /\ pc' = "sec_done"
            /\ UNCHANGED <<idx, patches>>
       ELSE IF get(items, key(None, "checkfile")) = None
       THEN /\ secres' = Some(config_missing_field(section, "checkfile"))
            /\ pc' = "sec_done"
            /\ UNCHANGED <<idx, patches>>
       ELSE IF ~IsOk(from_items(builder, section, items, None))
       THEN /\ secres' = Some(from_items(builder, section, items, None))
            /\ pc' = "sec_done"
            /\ UNCHANGED <<idx, patches>>
       ELSE /\ patches' = <<from_items(builder, section, items, None).val>>
            /\ idx' = 1
            /\ pc' = "sec_loop"
            /\ UNCHANGED secres
    /\ UNCHANGED <<pattern, buf, section, signature, sigwild, sigres, items, builder>>
    /\ UNCHANGED <<findVars, applyVars>>
    /\ UNCHANGED <<textVars, cfgVars, fileVars>>

\* Ok(next) => patches.push(next), then idx += 1
SectionPush ==
    /\ pc = "sec_loop"
    /\ IsOk(from_items(builder, section, items, Some(idx)))
    /\ patches' = Append(patches, from_items(builder, section, items, Some(idx)).val)
    /\ \E n \in add_one_u8(idx) :
        IF IsOk(n)
        THEN idx' = n.val /\ UNCHANGED <<pc, secres>>
        ELSE idx' = idx /\ pc' = "sec_done" /\ secres' = Some(Panic)
    /\ UNCHANGED <<pattern, buf, section, signature, sigwild, sigres, items, builder>>
    /\ UNCHANGED <<findVars, applyVars>>
    /\ UNCHANGED <<textVars, cfgVars, fileVars>>

\* Err(MissingRequiredField { .. }) => break, and the Ok(Self { .. }) after
\* the loop
SectionBreak ==
    /\ pc = "sec_loop"
    /\ from_items(builder, section, items, Some(idx)).tag = "Err"
    /\ from_items(builder, section, items, Some(idx)).kind = "MissingRequiredField"
    /\ secres' = Some(Ok([name |-> section,
                          details |-> replace_escape(items[key(None, "details")]),
                          checkfile |-> items[key(None, "checkfile")],
                          patches |-> patches]))
    /\ pc' = "sec_done"
    /\ UNCHANGED <<pattern, buf, section, signature, sigwild, sigres, items, builder,
                   idx, patches>>
    /\ UNCHANGED <<findVars, applyVars>>
    /\ UNCHANGED <<textVars, cfgVars, fileVars>>

\* Err(e) => return Err(e), and a panic inside from_items
SectionAbort ==
    /\ pc = "sec_loop"
    /\ \/ from_items(builder, section, items, Some(idx)).tag = "Panic"
       \/ /\ from_items(builder, section, items, Some(idx)).tag = "Err"
          /\ from_items(builder, section, items, Some(idx)).kind # "MissingRequiredField"
    /\ secres' = Some(from_items(builder, section, items, Some(idx)))
    /\ pc' = "sec_done"
    /\ UNCHANGED <<pattern, buf, section, signature, sigwild, sigres, items, builder,
                   idx, patches>>
    /\ UNCHANGED <<findVars, applyVars>>
    /\ UNCHANGED <<textVars, cfgVars, fileVars>>

NextSection == SectionBegin \/ SectionPush \/ SectionBreak \/ SectionAbort

SpecSection == InitSection /\ [][NextSection]_vars

(***************************************************************************)
(* AppSection::from_items on sections with optional and numeric fields     *)
(***************************************************************************)
PatchFieldNames == {"sig", "sigwild", "modfile", "undofile", "xoffset", "yoffset",
                    "occur", "setx", "sety"}

\* texts of the numeric fields: a number, no number, a negative number, and
\* u16::MAX + 1
NumTexts == {<<"7">>, <<"x">>, <<"-", "1">>, <<"6", "5", "5", "3", "6">>}
OccurTexts == {<<"1">>, <<"x">>, <<"6", "5", "5", "3", "6">>}
OptValues == {None} \cup {Some(t) : t \in NumTexts}
UndofileValues == {None, Some(<<"u">>)}

\* the keys of one index: every required key well-formed and no optional
\* key, or no key at all
GoodFields ==
    [f \in PatchFieldNames |->
        CASE f = "sig" -> Some(<<"8", "0">>)
          [] f = "sigwild" -> Some(<<"0">>)
          [] f = "modfile" -> Some(<<"m">>)
          [] f = "occur" -> Some(<<"1">>)
          [] OTHER -> None]
AbsentFields == [f \in PatchFieldNames |-> None]

\* the map with details, checkfile and the keys of fields[i][f] that are Some
ItemsOfFields(fields) ==
    LET present == {p \in Indices \X PatchFieldNames : fields[p[1]][p[2]] # None}
        top == {chars("details"), chars("checkfile")}
    IN  [k \in {key(p[1], p[2]) : p \in present} \cup top |->
            IF k = chars("details") THEN <<"d">>
            ELSE IF k = chars("checkfile") THEN <<"c">>
            ELSE LET p == CHOOSE q \in present : key(q[1], q[2]) = k
                 IN  Unwrap(fields[p[1]][p[2]])]

\* the sections drawn: a chain of indices 0 .. last with well-formed sig,
\* sigwild and modfile, each with the same texts in the optional fields (one
\* text for xoffset and sety, one for yoffset and setx), of which index `at`
\* has any text in occur
InitFields ==
    /\ pc = "sec_call"
    /\ section \in Sections
    /\ builder \in {"config", "patch_info"}
    /\ \E at \in 0..MaxIdx, last \in 0..MaxIdx, occ \in OccurTexts, un \in UndofileValues,
          xo \in OptValues, yo \in OptValues :
            /\ at <= last
            /\ items = ItemsOfFields(
                    [i \in Indices |->
                        IF i # None /\ Unwrap(i) > last THEN AbsentFields
                        ELSE [GoodFields EXCEPT
                                !["occur"] = IF i = IndexOf(at) THEN Some(occ) ELSE @,
                                !["undofile"] = un,
                                !["xoffset"] = xo, !["yoffset"] = yo,
                                !["setx"] = yo, !["sety"] = xo]])
    /\ idx = 0 /\ patches = <<>> /\ secres = None
    /\ signature = <<>> /\ sigwild = <<>> /\ sigres = None
    /\ pattern = <<>> /\ buf = <<>>
    /\ IdleFind /\ IdleApply
    /\ IdleText /\ IdleCfg /\ IdleFile

SpecFields == InitFields /\ [][NextSection]_vars

(***************************************************************************)
(* AppSection::from_items on long chains: the prefixes p1 .. pn, n up to   *)
(* u8::MAX, with and without the prefix p0                                 *)
(***************************************************************************)
\* the last prefix of the chains drawn
ChainEnds == {0, 1, 254, 255}

\* the section with details, checkfile, the unprefixed patch, the patches
\* p1 .. pn and, when zero is set, the patch p0
ChainItems(n, zero) ==
    LET fields == {"sig", "sigwild", "modfile", "occur"}
        value(f) == CASE f = "sig" -> <<"8", "0">>
                      [] f = "sigwild" -> <<"0">>
                      [] f = "modfile" -> <<"m">>
                      [] f = "occur" -> <<"1">>
                      [] f = "details" -> <<"a">>
                      [] f = "checkfile" -> <<"c">>
        indices == {None} \cup {Some(i) : i \in 1..n} \cup (IF zero THEN {Some(0)} ELSE {})
        pairs == {<<key(p[1], p[2]), value(p[2])>> :
                    p \in (indices \X fields) \cup ({None} \X {"details", "checkfile"})}
    IN  [k \in {p[1] : p \in pairs} |-> (CHOOSE p \in pairs : p[1] = k)[2]]

InitChain ==
    /\ pc = "sec_call"
    /\ section \in Sections
    /\ builder \in {"config", "patch_info"}
    /\ \E n \in ChainEnds, zero \in BOOLEAN : items = ChainItems(n, zero)
    /\ idx = 0 /\ patches = <<>> /\ secres = None
    /\ signature = <<>> /\ sigwild = <<>> /\ sigres = None
    /\ pattern = <<>> /\ buf = <<>>
    /\ IdleFind /\ IdleApply
    /\ IdleText /\ IdleCfg /\ IdleFile

\* the loop has no bound of its own: the model follows it up to MaxChain
\* patches
ChainPush == Len(patches) < MaxChain /\ SectionPush

NextChain == SectionBegin \/ ChainPush \/ SectionBreak

SpecChain == InitChain /\ [][NextChain]_vars

(***************************************************************************)
(* Config::get_apps on the Apps sections of the bounds                     *)
(***************************************************************************)
\* keys of the Apps section: registry keys of one, two and three digits, a
\* key with a leading zero, and keys that are no registry keys
AppKeys == {chars("version"), <<"a", "0">>, <<"a", "2">>, <<"a", "3">>, <<"a", "0", "3">>,
            <<"a", "1", "0">>, <<"a", "3", "0", "0">>, <<"b", "1">>, <<"a">>, <<"a", "b">>}

\* the value of key k: a name that tells the keys apart
ValueOf(k) == <<"S">> \o k

\* the RawConfig with the Apps section of the keys ks, or without one
RawConfigOf(ks, with_apps) ==
    IF with_apps THEN insert(<<>>, chars("Apps"), [k \in ks |-> ValueOf(k)])
    ELSE insert(<<>>, <<"X">>, [k \in ks |-> ValueOf(k)])

InitApps ==
    /\ pc = "apps_call"
    /\ \E ks \in SUBSET AppKeys, with_apps \in BOOLEAN :
        /\ ks # {} /\ Cardinality(ks) <= MaxKeys
        /\ raw_config = RawConfigOf(ks, with_apps)
    /\ apps = None /\ sections = <<>> /\ outcomes = <<>>
    /\ pattern = <<>> /\ buf = <<>>
    /\ IdleFind /\ IdleApply /\ IdleSig /\ IdleSec /\ IdleText /\ IdleFile

\* Config::get_apps(&raw_config)
GetApps ==
    /\ pc = "apps_call"
    /\ \E order \in iter_orders(raw_config) :
        outcomes' = <<get_apps(raw_config, order)>>
    /\ pc' = "apps_done"
    /\ UNCHANGED <<pattern, buf, raw_config, apps, sections>>
    /\ UNCHANGED <<findVars, applyVars, sigVars, secVars, textVars, fileVars>>

NextApps == GetApps

SpecApps == InitApps /\ [][NextApps]_vars

(***************************************************************************)
(* Config::new, one action per step; the sections are built by the actions *)
(* of AppSection::from_items                                               *)
(***************************************************************************)
\* the lines of a configuration text
Line(k, v) == k \o <<"=">> \o v \o <<"\n">>
HeaderLine(name) == <<"[">> \o name \o <<"]", "\n">>
PatchLines(index, occ) ==
    Line(key(index, "sig"), <<"8", "0">>) \o Line(key(index, "sigwild"), <<"0">>)
        \o Line(key(index, "modfile"), <<"m">>) \o Line(key(index, "occur"), occ)

\* the sections drawn (sigwild as long as sig in each): none, one patch, a
\* chain of two, a chain whose second occur is no number, one without
\* checkfile
SectionKinds == {"absent", "good", "chain", "bad", "nocheck"}
SectionNames == {<<"X">>, <<"Y">>}

SectionText(name, kind) ==
    CASE kind = "absent" -> <<>>
      [] kind = "good" ->
            HeaderLine(name) \o Line(chars("details"), <<"d">>)
                \o Line(chars("checkfile"), <<"c">>) \o PatchLines(None, <<"1">>)
      [] kind = "chain" ->
            HeaderLine(name) \o Line(chars("details"), <<"d">>)
                \o Line(chars("checkfile"), <<"c">>) \o PatchLines(None, <<"1">>)
                \o PatchLines(Some(1), <<"1">>)
      [] kind = "bad" ->
            HeaderLine(name) \o Line(chars("details"), <<"d">>)
                \o Line(chars("checkfile"), <<"c">>) \o PatchLines(None, <<"1">>)
                \o PatchLines(Some(1), <<"x">>)
      [] kind = "nocheck" ->
            HeaderLine(name) \o Line(chars("details"), <<"d">>) \o PatchLines(None, <<"1">>)

\* a registry line, or none
RegistryLine(k, name) == IF name = None THEN <<>> ELSE Line(k, Unwrap(name))
RegistryValues == {None} \cup {Some(n) : n \in SectionNames}

\* the Apps section with the keys a0, a1 and a01
AppsText(version, r0, r1, r01) ==
    HeaderLine(chars("Apps"))
        \o (IF version THEN Line(chars("version"), <<"1">>) ELSE <<>>)
        \o RegistryLine(<<"a", "0">>, r0) \o RegistryLine(<<"a", "1">>, r1)
        \o RegistryLine(<<"a", "0", "1">>, r01)

InitConfig ==
    /\ pc = "new_call"
    /\ builder \in {"config", "patch_info"}
    /\ \E version \in BOOLEAN, r0 \in RegistryValues, r1 \in RegistryValues,
          r01 \in RegistryValues, kx \in SectionKinds, ky \in SectionKinds,
          y_first \in BOOLEAN :
            input = AppsText(version, r0, r1, r01)
                        \o (IF y_first
                            THEN SectionText(<<"Y">>, ky) \o SectionText(<<"X">>, kx)
                            ELSE SectionText(<<"X">>, kx) \o SectionText(<<"Y">>, ky))
    /\ kvres = None /\ parsed = None
    /\ section = <<>> /\ signature = <<>> /\ sigwild = <<>> /\ sigres = None
    /\ items = <<>> /\ idx = 0 /\ patches = <<>> /\ secres = None
    /\ pattern = <<>> /\ buf = <<>>
    /\ IdleFind /\ IdleApply /\ IdleCfg /\ IdleFile

\* let raw_config: RawConfig = parse(input)?;
ConfigParse ==
    /\ pc = "new_call"
    /\ LET raw == parse(input)
       IN  IF IsOk(raw)
           THEN /\ raw_config' = raw.val
                /\ pc' = "new_apps"
                /\ UNCHANGED outcomes
           ELSE /\ outcomes' = Append(outcomes, raw)
                /\ pc' = "new_done"
                /\ UNCHANGED raw_config
    /\ UNCHANGED <<pattern, buf, apps, sections>>
    /\ UNCHANGED <<findVars, applyVars, sigVars, secVars, textVars, fileVars>>

\* let apps = Self::get_apps(&raw_config)?; and Vec::with_capacity
ConfigGetApps ==
    /\ pc = "new_apps"
    /\ \E order \in iter_orders(raw_config) :
        LET got == get_apps(raw_config, order)
        IN  IF IsOk(got)
            THEN /\ apps' = Some(got.val)
                 /\ pc' = "new_loop"
                 /\ UNCHANGED outcomes
            ELSE /\ outcomes' = Append(outcomes, got)
                 /\ pc' = "new_done"
                 /\ UNCHANGED apps
    /\ UNCHANGED <<pattern, buf, raw_config, sections>>
    /\ UNCHANGED <<findVars, applyVars, sigVars, secVars, textVars, fileVars>>

\* the head of `for header in &apps.apps`: the section of the next header is
\* looked up and handed to AppSection::from_items; after the last header,
\* Ok(Self { apps, sections })
ConfigSection ==
    /\ pc = "new_loop"
    /\ IF Len(sections) = Len(Unwrap(apps).apps)
       THEN /\ outcomes' = Append(outcomes, Ok([apps |-> Unwrap(apps), sections |-> sections]))
            /\ pc' = "new_done"
            /\ UNCHANGED <<section, secVars>>
       ELSE LET hdr == Unwrap(apps).apps[Len(sections) + 1]
            IN  IF get(raw_config, hdr) = None
                THEN /\ outcomes' = Append(outcomes, config_error(<<"Missing section", hdr>>))
                     /\ pc' = "new_done"
                     /\ UNCHANGED <<section, secVars>>
                ELSE /\ section' = hdr
                     /\ items' = Unwrap(get(raw_config, hdr))
                     /\ idx' = 0 /\ patches' = <<>> /\ secres' = None
                     /\ pc' = "sec_call"
                     /\ UNCHANGED <<builder, outcomes>>
    /\ UNCHANGED <<pattern, buf, signature, sigwild, sigres, raw_config, apps, sections>>
    /\ UNCHANGED <<findVars, applyVars, textVars, fileVars>>

\* mutant: a build that fails ends the loop with the sections built so far
ConfigCollect_partial ==
    /\ pc = "sec_done" /\ apps # None
    /\ IF IsOk(Unwrap(secres))
       THEN /\ sections' = Append(sections, Unwrap(secres).val)
            /\ pc' = "new_loop"
            /\ UNCHANGED outcomes
       ELSE /\ outcomes' = Append(outcomes, Ok([apps |-> Unwrap(apps), sections |-> sections]))
            /\ pc' = "new_done"
            /\ UNCHANGED sections
    /\ UNCHANGED <<pattern, buf, raw_config, apps>>
    /\ UNCHANGED <<findVars, applyVars, sigVars, secVars, textVars, fileVars>>

\* let section = AppSection::from_items(header, section)?; sections.push(section);
ConfigCollect ==
    /\ pc = "sec_done" /\ apps # None
    /\ IF IsOk(Unwrap(secres))
       THEN /\ sections' = Append(sections, Unwrap(secres).val)
            /\ pc' = "new_loop"
            /\ UNCHANGED outcomes
       ELSE /\ outcomes' = Append(outcomes, Unwrap(secres))
            /\ pc' = "new_done"
            /\ UNCHANGED sections
    /\ UNCHANGED <<pattern, buf, raw_config, apps>>
    /\ UNCHANGED <<findVars, applyVars, sigVars, secVars, textVars, fileVars>>

\* Config::new is called again on the same input
ConfigRerun ==
    /\ pc = "new_done" /\ Len(outcomes) < MaxRuns
    /\ pc' = "new_call"
    /\ raw_config' = <<>> /\ apps' = None /\ sections' = <<>>
    /\ section' = <<>> /\ items' = <<>> /\ idx' = 0 /\ patches' = <<>> /\ secres' = None
    /\ UNCHANGED <<pattern, buf, signature, sigwild, sigres, builder, outcomes>>
    /\ UNCHANGED <<findVars, applyVars, textVars, fileVars>>

NextConfig ==
    \/ ConfigParse \/ ConfigGetApps \/ ConfigSection \/ NextSection
    \/ ConfigCollect \/ ConfigRerun

SpecConfig == InitConfig /\ [][NextConfig]_vars

(***************************************************************************)
(* kv_pair on one key with every value text of the bounds                  *)
(***************************************************************************)
\* the characters after the `=`: a letter, a space, the comment markers and
\* the quote
ValueChars == {"a", " ", ";", "#", "\""}
ValueTexts == SeqsUpTo(ValueChars, MaxValLen)
\* the `=` with and without spaces around it, and the end of the line: the
\* end of the input, or a line terminator
EqTexts == {<<"=">>, <<" ", "=", " ">>}
EndTexts == {<<>>, <<"\n">>}

InitKv ==
    /\ pc = "kv_call"
    /\ \E eq \in EqTexts, text \in ValueTexts, end \in EndTexts :
        input = <<"k">> \o eq \o text \o end
    /\ kvres = None /\ parsed = None
    /\ pattern = <<>> /\ buf = <<>>
    /\ IdleFind /\ IdleApply /\ IdleSig /\ IdleSec /\ IdleCfg /\ IdleFile

\* kv_pair(&mut input)
KvPair ==
    /\ pc = "kv_call"
    /\ kvres' = Some(kv_pair(input))
    /\ pc' = "kv_done"
    /\ UNCHANGED <<pattern, buf, input, parsed>>
    /\ UNCHANGED <<findVars, applyVars, sigVars, secVars, cfgVars, fileVars>>

NextKv == KvPair

SpecKv == InitKv /\ [][NextKv]_vars

(***************************************************************************)
(* parse on the texts of up to MaxLines lines                              *)
(***************************************************************************)
\* the lines drawn: two headers, two pairs, a comment, a line of text and an
\* empty line; the last line may lack its terminator
TextLines ==
    {<<"[", "A", "]", "\n">>, <<"[", "B", "]", "\n">>,
     <<"k", "=", "v", "\n">>, <<"j", " ", "=", " ", "w", "\n">>,
     <<";", "c", "\n">>, <<"x", "\n">>, <<"\n">>}
LastLines == {<<>>, <<"k", "=", "v">>, <<"[", "B", "]">>}

RECURSIVE Concat(_)
\* the text made of the lines ls
Concat(ls) == IF ls = <<>> THEN <<>> ELSE Head(ls) \o Concat(Tail(ls))

InitParse ==
    /\ pc = "parse_call"
    /\ \E ls \in SeqsUpTo(TextLines, MaxLines), last \in LastLines :
        input = Concat(ls) \o last
    /\ kvres = None /\ parsed = None
    /\ pattern = <<>> /\ buf = <<>>
    /\ IdleFind /\ IdleApply /\ IdleSig /\ IdleSec /\ IdleCfg /\ IdleFile

\* parse(input)
Parse ==
    /\ pc = "parse_call"
    /\ parsed' = Some(parse(input))
    /\ pc' = "parse_done"
    /\ UNCHANGED <<pattern, buf, input, kvres>>
    /\ UNCHANGED <<findVars, applyVars, sigVars, secVars, cfgVars, fileVars>>

NextParse == Parse

SpecParse == InitParse /\ [][NextParse]_vars

(***************************************************************************)
(* App::apply_patches and App::apply_patch_to_file on a directory with the *)
(* file to patch                                                           *)
(***************************************************************************)
\* Error::state_error(msg)
state_error(msg) ==
    [tag |-> "Err", kind |-> "StateError", section |-> "", field |-> "", msg |-> msg]
\* Error::from(std::io::Error)
read_error ==
    [tag |-> "Err", kind |-> "ReadError", section |-> "", field |-> "", msg |-> ""]

\* a path is the sequence of its components, the root first when it is
\* absolute; Path::join keeps an absolute argument as it is
Root == <<"/">>
is_absolute(p) == p # <<>> /\ p[1] = Root
join(dir, p) == IF is_absolute(p) THEN p ELSE dir \o p
parent(p) == SubSeq(p, 1, Len(p) - 1)

\* format!("{}.undo{}", mod_file_path.to_string_lossy(), iteration)
UndoSuffix == <<".", "u", "n", "d", "o">>
with_undo(p, i) == [p EXCEPT ![Len(p)] = @ \o UndoSuffix \o to_string(i)]

mod_file_path(dir, d) == join(dir, <<d.modfile>>)
undo_file_path(dir, d, i) ==
    join(dir, IF IsSome(d.undofile) THEN <<Unwrap(d.undofile)>>
              ELSE with_undo(mod_file_path(dir, d), i))

\* the directories of the file system: the game directory
dir_exists(p) == IsSome(game_dir) /\ p = Unwrap(game_dir)
\* the file system with content c at path p
file_put(fs, p, c) == [q \in DOMAIN fs \cup {p} |-> IF q = p THEN c ELSE fs[q]]

\* the directories, the file contents and the descriptors drawn
GameDirs == {None, Some(<<Root, <<"d">>>>), Some(<<<<"d">>>>)}
Widths == {None, Some(1)}
Heights == {None, Some(256)}
FileContents == {None, Some(<<0, 1, 0, 1>>), Some(<<1, 0, 0>>)}
FilePatterns == {<<Some(0), None>>, <<Some(1)>>}
FileDescs ==
    [modfile : {<<"m">>}, undofile : {None, Some(<<"u">>)}, pattern : FilePatterns,
     xoffset : Offsets, yoffset : {None, Some(0)}, occur : 0..MaxOccur]
\* a second descriptor of the section, on the same file
SecondDescs ==
    [modfile : {<<"m">>}, undofile : {None, Some(<<"u">>)}, pattern : {<<Some(1)>>},
     xoffset : {Some(0)}, yoffset : {None}, occur : {1}]

InitFile ==
    /\ pc = "patches_call"
    /\ game_dir \in GameDirs /\ width \in Widths /\ height \in Heights
    /\ \E first \in FileDescs, rest \in {<<>>} \cup {<<d>> : d \in SecondDescs} :
        descs = <<first>> \o rest
    /\ \E content \in FileContents :
        files = IF IsSome(game_dir) /\ IsSome(content)
                THEN file_put(<<>>, join(Unwrap(game_dir), <<<<"m">>>>), Unwrap(content))
                ELSE <<>>
    /\ files0 = files
    /\ iteration = 0 /\ fileres = None
    /\ pattern = <<>> /\ buf = <<>>
    /\ IdleFind /\ IdleApply /\ IdleSig /\ IdleSec /\ IdleText /\ IdleCfg

\* apply_patches up to the first apply_patch_to_file
ApplyPatches ==
    /\ pc = "patches_call"
    /\ IF game_dir = None
       THEN fileres' = Some(state_error("Missing game dir")) /\ pc' = "patches_done"
       ELSE pc' = "file_call" /\ UNCHANGED fileres
    /\ UNCHANGED <<pattern, buf, files, files0, game_dir, width, height, descs, iteration>>
    /\ UNCHANGED <<findVars, applyVars, sigVars, secVars, textVars, cfgVars>>

\* apply_patch_to_file from its entry to the call of apply_patch: width,
\* height, the two paths and the read of the file; an Err ends apply_patches
\* (collect stops at the first Err)
FileRead ==
    /\ pc = "file_call"
    /\ files0' = files
    /\ LET d == descs[iteration + 1]
           mod == mod_file_path(Unwrap(game_dir), d)
       IN  IF width = None \/ height = None \/ mod \notin DOMAIN files
           THEN /\ fileres' = Some(IF width = None THEN state_error("Missing width")
                                   ELSE IF height = None THEN state_error("Missing height")
                                   ELSE read_error)
                /\ pc' = "patches_done"
                /\ UNCHANGED <<pattern, buf, applyVars>>
           ELSE /\ buf' = files[mod] /\ orig' = files[mod]
                /\ pattern' = d.pattern
                /\ xoffset' = d.xoffset /\ yoffset' = d.yoffset /\ occur' = d.occur
                /\ x_res' = Unwrap(width) /\ y_res' = Unwrap(height)
                /\ base' = 0 /\ iter' = 0 /\ result' = None /\ matches' = <<>>
                /\ pc' = "apply_loop"
                /\ UNCHANGED fileres
    /\ UNCHANGED <<files, game_dir, width, height, descs, iteration>>
    /\ UNCHANGED <<findVars, sigVars, secVars, textVars, cfgVars>>

\* apply_patch has returned true or false: `?` returns only on an Err, which
\* a bool is not, and the value is dropped; then std::fs::copy, which fails
\* when the directory of the undo path does not exist
FileCopy ==
    /\ pc = "apply_done"
    /\ LET d == descs[iteration + 1]
           mod == mod_file_path(Unwrap(game_dir), d)
           undo == undo_file_path(Unwrap(game_dir), d, iteration)
       IN  IF dir_exists(parent(undo))
           THEN /\ files' = file_put(files, undo, files[mod])
                /\ pc' = "file_copied"
                /\ UNCHANGED fileres
           ELSE /\ fileres' = Some(read_error)
                /\ pc' = "patches_done"
                /\ UNCHANGED files
    /\ UNCHANGED <<pattern, buf, files0, game_dir, width, height, descs, iteration>>
    /\ UNCHANGED <<findVars, applyVars, sigVars, secVars, textVars, cfgVars>>

\* File::options().write(true).truncate(true).open(mod_file_path)
FileTruncate ==
    /\ pc = "file_copied"
    /\ files' = [files EXCEPT ![mod_file_path(Unwrap(game_dir), descs[iteration + 1])] = <<>>]
    /\ pc' = "file_open"
    /\ UNCHANGED <<pattern, buf, files0, game_dir, width, height, descs, iteration, fileres>>
    /\ UNCHANGED <<findVars, applyVars, sigVars, secVars, textVars, cfgVars>>

\* file.write_all(&file_data)
FileWrite ==
    /\ pc = "file_open"
    /\ files' = [files EXCEPT ![mod_file_path(Unwrap(game_dir), descs[iteration + 1])] = buf]
    /\ pc' = "file_written"
    /\ UNCHANGED <<pattern, buf, files0, game_dir, width, height, descs, iteration, fileres>>
    /\ UNCHANGED <<findVars, applyVars, sigVars, secVars, textVars, cfgVars>>

\* Ok(true), and the next descriptor of apply_patches or its Ok(all true)
FileReturn ==
    /\ pc = "file_written"
    /\ IF iteration + 1 < Len(descs)
       THEN iteration' = iteration + 1 /\ pc' = "file_call" /\ UNCHANGED fileres
       ELSE fileres' = Some(Ok(TRUE)) /\ pc' = "patches_done" /\ UNCHANGED iteration
    /\ UNCHANGED <<pattern, buf, files, files0, game_dir, width, height, descs>>
    /\ UNCHANGED <<findVars, applyVars, sigVars, secVars, textVars, cfgVars>>

NextFile ==
    \/ ApplyPatches \/ FileRead \/ NextApply
    \/ FileCopy \/ FileTruncate \/ FileWrite \/ FileReturn

SpecFile == InitFile /\ [][NextFile]_vars

(***************************************************************************)
(* Reference notions the properties are stated with                        *)
(***************************************************************************)
\* pattern P matches haystack H at offset i
MatchesAt(P, H, i) ==
    /\ i + Len(P) <= Len(H)
    /\ \A k \in 1..Len(P) : P[k] = None \/ P[k] = Some(H[i + k])

MatchOffsets(P, H) == {i \in 0..Len(H) : MatchesAt(P, H, i)}

Min(S) == CHOOSE m \in S : \A n \in S : m <= n

RECURSIVE Occurrences(_, _, _, _)
\* the first n non-overlapping occurrences of P in H at or after cursor c,
\* left to right (fewer when H holds fewer)
Occurrences(P, H, c, n) ==
    LET later == {i \in MatchOffsets(P, H) : i >= c}
    IN  IF n = 0 \/ later = {} THEN <<>>
        ELSE <<Min(later)>> \o Occurrences(P, H, Min(later) + Len(P), n - 1)

HoldsOccurrences == Len(Occurrences(pattern, orig, 0, occur)) = occur

\* b holds the low byte, then the high byte, of v at offset pos
HoldsLE(b, pos, v) ==
    /\ pos + 1 < Len(b)
    /\ b[pos + 1] = v % 256
    /\ b[pos + 2] = v \div 256

\* every set offset keeps its two bytes inside the matched region
InRegion ==
    /\ IsSome(xoffset) => Unwrap(xoffset) + 2 <= Len(pattern)
    /\ IsSome(yoffset) => Unwrap(yoffset) + 2 <= Len(pattern)

\* the two bytes of height were stored after those of width
YTargets(m) == IF IsSome(yoffset) THEN {m + Unwrap(yoffset), m + Unwrap(yoffset) + 1} ELSE {}

\* the bytes of width at m + xoffset, except where height's two bytes cover them
HoldsWidthUncovered(b, m) ==
    \A j \in 0..1 :
        LET p == m + Unwrap(xoffset) + j
        IN  p \notin YTargets(m) =>
                /\ p < Len(b)
                /\ b[p + 1] = (IF j = 0 THEN x_res % 256 ELSE x_res \div 256)

\* b after the stores of one match at absolute offset m, all of them in bounds
Patched(b, m) ==
    LET b1 == IF IsSome(xoffset)
              THEN [b EXCEPT ![m + Unwrap(xoffset) + 1] = x_res % 256,
                             ![m + Unwrap(xoffset) + 2] = x_res \div 256]
              ELSE b
    IN  IF IsSome(yoffset)
        THEN [b1 EXCEPT ![m + Unwrap(yoffset) + 1] = y_res % 256,
                        ![m + Unwrap(yoffset) + 2] = y_res \div 256]
        ELSE b1

RECURSIVE Replay(_, _)
\* b after the stores of the matches ms, in order
Replay(b, ms) ==
    IF ms = <<>> THEN b ELSE Replay(Patched(b, Head(ms)), Tail(ms))

\* a store of the match at absolute offset m leaves the buffer
OutOfBounds(m) ==
    \/ IsSome(xoffset) /\ m + Unwrap(xoffset) + 1 >= Len(buf)
    \/ IsSome(yoffset) /\ m + Unwrap(yoffset) + 1 >= Len(buf)

(***************************************************************************)
(* C1..C6: try_find and apply_patch                                        *)
(***************************************************************************)
\* C1: when try_find returns Some(i), the pattern matches the haystack at
\* offset i (it fits, and every exact slot equals the byte under it, a
\* wildcard slot matching any byte) and matches at no offset below i.
C1_LeftmostMatch ==
    (pc = "find_done" /\ IsSome(found)) =>
        /\ MatchesAt(pattern, buf, Unwrap(found))
        /\ \A j \in 0..(Unwrap(found) - 1) : ~MatchesAt(pattern, buf, j)

\* C1 witness: a match found past offset 0 by a pattern with a wildcard slot
\* and an exact slot
C1_Witness ==
    /\ pc = "find_done" /\ IsSome(found) /\ Unwrap(found) >= 1
    /\ \E k \in 1..Len(pattern) : pattern[k] = None
    /\ \E k \in 1..Len(pattern) : pattern[k] # None

\* C2: try_find returns None exactly when the pattern matches at no offset
\* of the haystack, the empty pattern and the empty haystack included.
C2_NoneIffNoMatch ==
    pc = "find_done" => (found = None <=> MatchOffsets(pattern, buf) = {})

\* C3 as stated (on calls that return, for a non-empty pattern): when the
\* buffer holds at least occur non-overlapping occurrences, apply_patch
\* returns true and the buffer holds width at m + xoffset and height at
\* m + yoffset for each of the first occur occurrences m.
C3_Original ==
    (pc = "apply_done" /\ Len(pattern) > 0 /\ HoldsOccurrences) =>
        /\ result = Some(TRUE)
        /\ \A k \in 1..occur :
            LET m == Occurrences(pattern, orig, 0, occur)[k]
            IN  /\ IsSome(xoffset) => HoldsLE(buf, m + Unwrap(xoffset), x_res)
                /\ IsSome(yoffset) => HoldsLE(buf, m + Unwrap(yoffset), y_res)

\* C3 amended: when the pattern is non-empty, the buffer holds at least
\* occur non-overlapping occurrences and every set offset keeps its two
\* bytes inside the matched region, apply_patch returns true (it does not
\* panic), it matches exactly the first occur occurrences, and for each of
\* them the buffer holds height at m + yoffset and width at m + xoffset,
\* except the bytes of width that the two bytes of height cover.
C3_PatchedInRegion ==
    (pc \in {"apply_done", "apply_panic"} /\ Len(pattern) > 0
        /\ HoldsOccurrences /\ InRegion) =>
        /\ pc = "apply_done"
        /\ result = Some(TRUE)
        /\ matches = Occurrences(pattern, orig, 0, occur)
        /\ \A k \in 1..occur :
            LET m == Occurrences(pattern, orig, 0, occur)[k]
            IN  /\ IsSome(yoffset) => HoldsLE(buf, m + Unwrap(yoffset), y_res)
                /\ IsSome(xoffset) => HoldsWidthUncovered(buf, m)

\* C3 witness: two occurrences patched with both offsets set
C3_Witness ==
    /\ pc = "apply_done" /\ result = Some(TRUE)
    /\ Len(pattern) > 0 /\ HoldsOccurrences /\ InRegion
    /\ occur = 2 /\ IsSome(xoffset) /\ IsSome(yoffset)
    /\ x_res # y_res /\ buf # orig

\* C4 as stated (on calls that return, for a non-empty pattern): with
\* occur = 2 and a single occurrence in the buffer, the result is false and
\* exactly one occurrence is patched.
C4_Original ==
    (pc = "apply_done" /\ Len(pattern) > 0 /\ occur = 2
        /\ Cardinality(MatchOffsets(pattern, orig)) = 1) =>
        /\ result = Some(FALSE)
        /\ Len(matches) = 1

\* C4 amended: when the k-th search finds no match, apply_patch returns
\* false and the buffer is the buffer of the call with the stores of the
\* k-1 matches before it and nothing else; with occur = 2, a non-empty
\* pattern that occurs once in the buffer and every set offset inside the
\* matched region, the result is false and exactly one occurrence is
\* patched.
C4_PartialKept ==
    /\ (pc = "apply_done" /\ result = Some(FALSE)) =>
        /\ Len(matches) < occur
        /\ Len(matches) = iter
        /\ try_find(pattern, data) = None
        /\ buf = Replay(orig, matches)
    /\ (pc \in {"apply_done", "apply_panic"} /\ Len(pattern) > 0 /\ occur = 2
            /\ Cardinality(MatchOffsets(pattern, orig)) = 1 /\ InRegion) =>
        /\ pc = "apply_done"
        /\ result = Some(FALSE)
        /\ Len(matches) = 1
        /\ buf = Patched(orig, matches[1])

\* C4 witness: occur = 2, one occurrence, patched at both offsets, and the
\* second search failed
C4_Witness ==
    /\ pc = "apply_done" /\ result = Some(FALSE)
    /\ occur = 2 /\ Len(matches) = 1 /\ buf # orig
    /\ Cardinality(MatchOffsets(pattern, orig)) = 1 /\ InRegion
    /\ IsSome(xoffset)

\* C5: when a store of a match leaves the buffer, the call returns a typed
\* bounds error (a value that is neither true nor false) and the buffer
\* keeps no part of a 2-byte value: it is the buffer of the matches before.
C5_TypedBoundsError ==
    (Len(matches) > 0 /\ OutOfBounds(matches[Len(matches)])) =>
        /\ pc = "apply_done"
        /\ result \notin {None, Some(TRUE), Some(FALSE)}
        /\ buf = Replay(orig, SubSeq(matches, 1, Len(matches) - 1))

\* C6: the search for occurrence k+1 starts at m_k + len(pattern): the
\* matches of one call satisfy m_(k+1) >= m_k + len(pattern), so for a
\* non-empty pattern the matched regions are pairwise disjoint and no
\* offset is matched twice.
C6_ResumeAfterMatch ==
    /\ \A k \in 1..(Len(matches) - 1) : matches[k + 1] >= matches[k] + Len(pattern)
    /\ (Len(matches) > 0 /\ pc # "apply_panic") =>
            base = matches[Len(matches)] + Len(pattern)
    /\ Len(pattern) > 0 =>
        \A j, k \in 1..Len(matches) :
            j < k =>
                {matches[j] + d : d \in 0..(Len(pattern) - 1)}
                    \cap {matches[k] + d : d \in 0..(Len(pattern) - 1)} = {}

\* C6 witness: a second match found although the pattern also occurs one
\* byte after the first match, inside its region
C6_Witness ==
    /\ pc = "apply_done" /\ Len(matches) = 2 /\ Len(pattern) >= 2
    /\ MatchesAt(pattern, orig, matches[1] + 1)

(***************************************************************************)
(* C9, C10: Signature::from_string                                         *)
(***************************************************************************)
HexChars == {"0", "1", "2", "3", "4", "5", "6", "7", "8", "9",
             "a", "b", "c", "d", "e", "f", "A", "B", "C", "D", "E", "F"}

\* the value of a hexadecimal digit
HexVal(c) ==
    CASE c \in {"0", "1", "2", "3", "4", "5", "6", "7", "8", "9"} ->
            CHOOSE n \in 0..9 : ToString(n) = c
      [] c \in {"a", "A"} -> 10
      [] c \in {"b", "B"} -> 11
      [] c \in {"c", "C"} -> 12
      [] c \in {"d", "D"} -> 13
      [] c \in {"e", "E"} -> 14
      [] c \in {"f", "F"} -> 15

\* s is a hex string of even length, w a string over '0' and '1'
IsHexString(s) == Len(s) % 2 = 0 /\ \A i \in 1..Len(s) : s[i] \in HexChars
IsWildString(w) == \A i \in 1..Len(w) : w[i] \in {"0", "1"}

\* the byte written by the characters s[2k..2k+2], k from 0
DecodedByte(s, k) == 16 * HexVal(s[2 * k + 1]) + HexVal(s[2 * k + 2])
DecodedBytes(s) == [k \in 1..(Len(s) \div 2) |-> DecodedByte(s, k - 1)]
DecodedFlags(w) == [k \in 1..Len(w) |-> IF w[k] = "1" THEN "Wild" ELSE "Exact"]

\* C9 as stated: when sigwild has another number of characters than sig has
\* decoded bytes, from_string ends with a FieldParseError value; it builds
\* no pattern and does not abort the process.
C9_LengthMismatchIsParseError ==
    (pc = "sig_done" /\ IsHexString(signature) /\ IsWildString(sigwild)
        /\ Len(sigwild) # Len(signature) \div 2) =>
        /\ Unwrap(sigres).tag = "Err"
        /\ Unwrap(sigres).kind = "FieldParseError"

\* C10: for an even-length hex string s and a string w over '0' and '1'
\* with len(w) = len(s)/2, from_string yields a pattern of len(w) slots
\* whose slot k is the wildcard when w[k] = '1' and the exact byte decoded
\* from s[2k..2k+2] when w[k] = '0'; it is Signature::new of the decoded
\* bytes and flags.
C10_CompileFromString ==
    (pc = "sig_done" /\ IsHexString(signature) /\ IsWildString(sigwild)
        /\ Len(sigwild) = Len(signature) \div 2) =>
        /\ IsOk(Unwrap(sigres))
        /\ Len(Unwrap(sigres).val) = Len(sigwild)
        /\ \A k \in 1..Len(sigwild) :
            /\ sigwild[k] = "1" => Unwrap(sigres).val[k] = None
            /\ sigwild[k] = "0" =>
                    Unwrap(sigres).val[k] = Some(DecodedByte(signature, k - 1))
        /\ Unwrap(sigres) = Signature_new(DecodedBytes(signature), DecodedFlags(sigwild))

\* C10 witness: two bytes in both letter cases, one exact slot and one
\* wildcard slot
C10_Witness ==
    /\ pc = "sig_done" /\ IsOk(Unwrap(sigres))
    /\ signature = <<"f", "A", "8", "0">> /\ sigwild = <<"0", "1">>
    /\ Unwrap(sigres).val = <<Some(250), None>>

\* C11: from_string rejects every sig of odd length or with a character
\* outside 0-9, a-f, A-F by a FieldParseError that names the section and
\* the field `sig`, and it decodes a sig only when every character is a hex
\* digit and the length is even.
C11_RejectsNonHex ==
    pc = "sig_done" =>
        /\ ~IsHexString(signature) =>
                /\ Unwrap(sigres).tag = "Err"
                /\ Unwrap(sigres).kind = "FieldParseError"
                /\ Unwrap(sigres).section = section
                /\ Unwrap(sigres).field = "sig"
        /\ IsOk(Unwrap(sigres)) => IsHexString(signature)

(***************************************************************************)
(* C7, C8: AppSection::from_items                                          *)
(***************************************************************************)
\* the section has the key p{i}{field}, i >= 1, or the key {field}, i = 0
HasKey(i, field) == key(IndexOf(i), field) \in DOMAIN items
HasHeader == key(None, "details") \in DOMAIN items /\ key(None, "checkfile") \in DOMAIN items

\* the largest n with p1sig .. p{n}sig all present
ChainEnd == CHOOSE n \in 0..MaxIdx :
                /\ \A i \in 1..n : HasKey(i, "sig")
                /\ n < MaxIdx => ~HasKey(n + 1, "sig")

\* sigwild has one character for each byte of sig, where both are present
LengthsAgree(i) ==
    (HasKey(i, "sig") /\ HasKey(i, "sigwild")) =>
        Len(items[key(IndexOf(i), "sigwild")]) * 2 = Len(items[key(IndexOf(i), "sig")])

\* the keys sig, sigwild, modfile and occur of index i are present
Complete(i) ==
    HasKey(i, "sig") /\ HasKey(i, "sigwild") /\ HasKey(i, "modfile") /\ HasKey(i, "occur")

\* C7: the chain is probed at index 0, then p1, p2, .. and stops at the
\* first index i >= 1 whose p{i}sig is absent: patches has length n + 1
\* for the largest n with p1sig .. p{n}sig present, patches[i] is built from
\* prefix p{i}, and a section without p1sig yields a chain of length 1.
C7_ChainUpToFirstGap ==
    (pc = "sec_done" /\ IsOk(Unwrap(secres))) =>
        LET ps == Unwrap(secres).val.patches
        IN  /\ Len(ps) = ChainEnd + 1
            /\ \A i \in 0..ChainEnd :
                    Ok(ps[i + 1]) = from_items(builder, section, items, IndexOf(i))
            /\ ~HasKey(1, "sig") => Len(ps) = 1

\* C8: a missing required key is a fatal MissingRequiredField error except
\* the `sig` key of an index >= 1: when the build reaches an index i >= 1
\* whose p{i}sig is present and whose p{i}sigwild, p{i}modfile or p{i}occur
\* is absent, from_items returns that error and no shortened chain. (Stated
\* on sections whose sigwild lengths agree with sig.)
C8_MissingFieldFatal ==
    (pc = "sec_done" /\ HasHeader /\ \A i \in 0..MaxIdx : LengthsAgree(i)) =>
        /\ ~Complete(0) =>
                /\ Unwrap(secres).tag = "Err"
                /\ Unwrap(secres).kind = "MissingRequiredField"
        /\ \A i \in 1..MaxIdx :
                ((\A j \in 0..(i - 1) : Complete(j)) /\ HasKey(i, "sig") /\ ~Complete(i)) =>
                    /\ Unwrap(secres).tag = "Err"
                    /\ Unwrap(secres).kind = "MissingRequiredField"

(***************************************************************************)
(* C12: optional and required numeric fields                               *)
(***************************************************************************)
DigitChars == {"0", "1", "2", "3", "4", "5", "6", "7", "8", "9"}

RECURSIVE DecValue(_)
\* the number written by the decimal digits t
DecValue(t) ==
    IF t = <<>> THEN 0
    ELSE 10 * DecValue(SubSeq(t, 1, Len(t) - 1))
            + (CHOOSE n \in 0..9 : ToString(n) = t[Len(t)])

\* t without its sign '+'
Unsigned(t) == IF t # <<>> /\ t[1] = "+" THEN Tail(t) ELSE t

\* t is the text of an unsigned integer of `bits` bits (the texts drawn stay
\* below u32::MAX)
ParsesAs(t, bits) ==
    /\ Unsigned(t) # <<>>
    /\ \A k \in 1..Len(Unsigned(t)) : Unsigned(t)[k] \in DigitChars
    /\ bits = 16 => DecValue(Unsigned(t)) <= 65535

\* the text of field f at index i (the key is present)
TextOf(i, f) == items[key(IndexOf(i), f)]

\* what an optional numeric field of index i holds
Optional(i, f, bits) ==
    IF HasKey(i, f) /\ ParsesAs(TextOf(i, f), bits)
    THEN Some(DecValue(Unsigned(TextOf(i, f))))
    ELSE None

\* sig, sigwild and modfile of index i are present and well-formed
WellFormed(i) ==
    /\ HasKey(i, "sig") /\ HasKey(i, "sigwild") /\ HasKey(i, "modfile")
    /\ IsHexString(TextOf(i, "sig")) /\ IsWildString(TextOf(i, "sigwild"))
    /\ LengthsAgree(i)

OccurParses(i) == HasKey(i, "occur") /\ ParsesAs(TextOf(i, "occur"), 32)

\* C12: xoffset, yoffset, setx and sety are None when the key is absent or
\* its text is no unsigned integer of the field's type (u64, u64, u16, u16),
\* and the build succeeds whatever they hold; an occur whose text is no
\* unsigned 32-bit integer, at index 0 or at an index >= 1 that the chain
\* reaches with sig, sigwild and modfile well-formed, ends from_items with
\* a FieldParseError for `occur` of this section, no chain being returned.
C12_SoftOptionalFatalOccur ==
    (pc = "sec_done" /\ HasHeader) =>
        /\ IsOk(Unwrap(secres)) =>
                \A k \in 1..Len(Unwrap(secres).val.patches) :
                    LET p == Unwrap(secres).val.patches[k]
                    IN  /\ p.xoffset = Optional(k - 1, "xoffset", 64)
                        /\ p.yoffset = Optional(k - 1, "yoffset", 64)
                        /\ p.setx = Optional(k - 1, "setx", 16)
                        /\ p.sety = Optional(k - 1, "sety", 16)
        /\ (\A i \in 0..ChainEnd : WellFormed(i) /\ OccurParses(i)) =>
                /\ IsOk(Unwrap(secres))
                /\ Len(Unwrap(secres).val.patches) = ChainEnd + 1
        /\ \A i \in 0..ChainEnd :
                ( /\ \A j \in 0..(i - 1) : WellFormed(j) /\ OccurParses(j)
                  /\ WellFormed(i) /\ HasKey(i, "occur") /\ ~OccurParses(i) ) =>
                    /\ Unwrap(secres).tag = "Err"
                    /\ Unwrap(secres).kind = "FieldParseError"
                    /\ Unwrap(secres).field = "occur"
                    /\ Unwrap(secres).section = section

\* C12 witness: index 0 is built with an xoffset that is no number (None)
\* and a sety above u16::MAX (None) next to a yoffset that parses, and the
\* occur of index 1 is no number: the build is aborted
C12_Witness ==
    /\ pc = "sec_done" /\ Len(patches) = 1
    /\ HasKey(0, "xoffset") /\ patches[1].xoffset = None
    /\ HasKey(0, "yoffset") /\ patches[1].yoffset = Some(65536)
    /\ HasKey(0, "setx") /\ patches[1].setx = None
    /\ HasKey(1, "occur") /\ ~OccurParses(1)
    /\ Unwrap(secres).tag = "Err" /\ Unwrap(secres).kind = "FieldParseError"

(***************************************************************************)
(* C13: Config::get_apps                                                   *)
(***************************************************************************)
\* k is `a` followed by a base-10 unsigned integer
IsRegistryKey(k) ==
    /\ Len(k) >= 2 /\ k[1] = "a"
    /\ \A j \in 2..Len(k) : k[j] \in DigitChars
Suffix(k) == DecValue(Tail(k))

\* the Apps section of raw_config (the key is present)
AppsSection == raw_config[chars("Apps")]
HasApps == chars("Apps") \in DOMAIN raw_config
HasVersion == HasApps /\ chars("version") \in DOMAIN AppsSection
RegistryKeys == {k \in DOMAIN AppsSection : IsRegistryKey(k)}

\* vs holds the values of the registry keys, each once, by suffix ascending
IsRegistryList(vs) ==
    \E ks \in Orders(RegistryKeys) :
        /\ \A j, k \in DOMAIN ks : j < k => Suffix(ks[j]) <= Suffix(ks[k])
        /\ vs = [k \in DOMAIN ks |-> AppsSection[ks[k]]]

\* C13: get_apps collects every key of the Apps section that is `a` followed
\* by a base-10 unsigned integer of any magnitude (a0, a10, a300), ignores
\* every other key (version included), and returns the values by numeric
\* suffix ascending (a2 before a10).
C13_RegistryByNumericSuffix ==
    (pc = "apps_done" /\ HasVersion) =>
        /\ IsOk(outcomes[1])
        /\ IsRegistryList(outcomes[1].val.apps)

(***************************************************************************)
(* C14, C15: Config::new                                                   *)
(***************************************************************************)
\* C14: Config::new is deterministic: the calls on one text return the same
\* result, also when two keys of the Apps section have the same numeric
\* suffix (a1 and a01).
C14_Deterministic ==
    \A j, k \in DOMAIN outcomes : outcomes[j] = outcomes[k]

\* the application list of this call, and the outcome of the last call
Registry == Unwrap(apps).apps
LastOutcome == outcomes[Len(outcomes)]

\* the offset of the header of section `name` in the input
HeaderOffset(name) ==
    CHOOSE n \in 1..Len(input) : SubSeq(input, n, n + 2) = <<"[">> \o name \o <<"]">>

\* what Config::new has returned
C15_Returned ==
    pc = "new_done" =>
        /\ LastOutcome.tag \in {"Ok", "Err"}
        /\ IsOk(LastOutcome) =>
            /\ apps # None
            /\ LastOutcome.val.apps = Unwrap(apps)
            /\ Len(LastOutcome.val.sections) = Len(Registry)
            /\ \A i \in 1..Len(Registry) :
                /\ Registry[i] \in DOMAIN raw_config
                /\ LastOutcome.val.sections[i].name = Registry[i]
        /\ (apps # None /\ \E i \in 1..Len(Registry) : Registry[i] \notin DOMAIN raw_config) =>
                LastOutcome.tag = "Err"
        /\ ~IsOk(LastOutcome) => "val" \notin DOMAIN LastOutcome

\* what Config::new does with the outcome of a build
C15_Built ==
    /\ (pc = "sec_done" /\ ~IsOk(Unwrap(secres))) =>
            /\ pc' = "new_done"
            /\ outcomes' = Append(outcomes, Unwrap(secres))
    /\ (pc = "sec_done" /\ IsOk(Unwrap(secres))) =>
            /\ pc' = "new_loop"
            /\ sections' = Append(sections, Unwrap(secres).val)

\* C15: Config::new returns Ok only when every application of the registry
\* has a section and every build has returned Ok, and then `sections` is as
\* long as the registry list with sections[i].name the i-th registry entry;
\* a listed section that is missing and a build that returns an error make
\* it return Err (that error), with no Config.
C15_FailClosedRegistryOrder == []C15_Returned /\ [][C15_Built]_vars

\* C15 witness: a Config of two sections in registry order, Y then X, from
\* a text that has section X before section Y
C15_Witness ==
    /\ pc = "new_done" /\ IsOk(LastOutcome)
    /\ Len(LastOutcome.val.sections) = 2
    /\ LastOutcome.val.sections[1].name = <<"Y">>
    /\ LastOutcome.val.sections[2].name = <<"X">>
    /\ HeaderOffset(<<"X">>) < HeaderOffset(<<"Y">>)

(***************************************************************************)
(* C16, C17: kv_pair                                                       *)
(***************************************************************************)
\* the first line of the input, without its terminator
FirstLine == SubSeq(input, 1, CHOOSE n \in 0..Len(input) :
                                /\ \A k \in 1..n : input[k] # "\n"
                                /\ n < Len(input) => input[n + 1] = "\n")

\* t without its leading and without its trailing spaces
LeftTrim(t) == SubSeq(t, (CHOOSE n \in 1..(Len(t) + 1) :
                            /\ \A k \in 1..(n - 1) : t[k] = " "
                            /\ n <= Len(t) => t[n] # " "), Len(t))
RightTrim(t) == SubSeq(t, 1, CHOOSE n \in 0..Len(t) :
                                /\ \A k \in (n + 1)..Len(t) : t[k] = " "
                                /\ n > 0 => t[n] # " ")

\* the text of the value: what follows the `=` and the spaces after it
ValueText ==
    LeftTrim(SubSeq(FirstLine, 1 + (CHOOSE n \in 1..Len(FirstLine) : FirstLine[n] = "="),
                    Len(FirstLine)))

\* t up to, and without, its first comment marker
BeforeComment(t) == SubSeq(t, 1, CHOOSE n \in 0..Len(t) :
                                    /\ \A k \in 1..n : t[k] \notin {";", "#"}
                                    /\ n < Len(t) => t[n + 1] \in {";", "#"})

Unquoted == ValueText = <<>> \/ ValueText[1] # "\""
Quoted ==
    /\ Len(ValueText) >= 2 /\ ValueText[1] = "\""
    /\ \E k \in 2..Len(ValueText) : ValueText[k] = "\""

\* the characters between the opening quote and the next quote
BetweenQuotes ==
    SubSeq(ValueText, 2, CHOOSE n \in 1..(Len(ValueText) - 1) :
                            /\ \A k \in 2..n : ValueText[k] # "\""
                            /\ ValueText[n + 1] = "\"")

\* C16: for an unquoted value, kv_pair returns the characters up to but not
\* including the first comment marker (; or #) or the line end,
\* right-trimmed: `k = a ;a` yields `a`.
C16_UnquotedStopsAtComment ==
    (pc = "kv_done" /\ Unquoted) =>
        /\ Unwrap(kvres).ok
        /\ Unwrap(kvres).val = <<<<"k">>, RightTrim(BeforeComment(ValueText))>>

\* C17: for a double-quoted value, kv_pair returns exactly the characters
\* between the opening quote and the next quote and discards what follows
\* the closing quote up to the line end, also when spaces or a comment
\* follow the closing quote and when the line has no terminator.
C17_QuotedKeepsInside ==
    (pc = "kv_done" /\ Quoted) =>
        /\ Unwrap(kvres).ok
        /\ Unwrap(kvres).val = <<<<"k">>, BetweenQuotes>>
        /\ Unwrap(kvres).rest \in {<<>>, <<"\n">>}

(***************************************************************************)
(* C18: parse                                                              *)
(***************************************************************************)
RECURSIVE LinesOf(_)
\* the lines of t, without their terminators
LinesOf(t) ==
    IF t = <<>> THEN <<>>
    ELSE LET n == CHOOSE n \in 0..Len(t) :
                    /\ \A k \in 1..n : t[k] # "\n"
                    /\ n < Len(t) => t[n + 1] = "\n"
         IN <<SubSeq(t, 1, n)>> \o LinesOf(SubSeq(t, n + 2, Len(t)))

IsHeaderLine(l) == l # <<>> /\ l[1] = "["
IsPairLine(l) == l # <<>> /\ l[1] \in AsciiAlphanumeric /\ \E k \in 1..Len(l) : l[k] = "="
IsBlankLine(l) == l = <<>> \/ l[1] \in {";", "#"}

\* the input has no section header
NoHeader == \A i \in 1..Len(LinesOf(input)) : ~IsHeaderLine(LinesOf(input)[i])

\* some header's next line that is neither blank nor a comment is missing or
\* is not a key-value line
HeaderWithoutPair ==
    LET lines == LinesOf(input)
    IN \E i \in 1..Len(lines) :
        /\ IsHeaderLine(lines[i])
        /\ \A j \in (i + 1)..Len(lines) :
            (\A k \in (i + 1)..(j - 1) : IsBlankLine(lines[k])) => ~IsPairLine(lines[j])

\* C18: an input with no section header, or with a section header followed
\* by no key-value line (a header directly followed by another header
\* included), yields a ParseError and no section map.
C18_EmptySectionIsParseError ==
    (pc = "parse_done" /\ (NoHeader \/ HeaderWithoutPair)) =>
        Unwrap(parsed) = parse_error

(***************************************************************************)
(* C19, C20: apply_patch, the buffer after the call                        *)
(***************************************************************************)
\* the number of non-overlapping occurrences the buffer of the call held
NumOccurrences == Len(Occurrences(pattern, orig, 0, Len(orig) + 1))

\* C19 as stated (for a non-empty pattern): when apply_patch returned true
\* with occur equal to the number of non-overlapping occurrences, a new
\* try_find from offset 0 of the buffer returns None.
C19_Original ==
    (pc = "apply_done" /\ result = Some(TRUE) /\ Len(pattern) > 0
        /\ occur = NumOccurrences) =>
        try_find(pattern, buf) = None

\* C19 amended: when apply_patch returned true for a non-empty pattern with
\* every set offset inside the matched region and occur equal to the number
\* of non-overlapping occurrences, a new try_find from the end of the last
\* match returns None, and a new try_find from offset 0 finds the pattern
\* exactly when it still matches the patched bytes of some offset below
\* that end.
C19_RescanFromCursor ==
    (pc = "apply_done" /\ result = Some(TRUE) /\ Len(pattern) > 0
        /\ InRegion /\ occur = NumOccurrences) =>
        /\ try_find(pattern, SliceFrom(buf, base)) = None
        /\ MatchOffsets(pattern, buf) \subseteq 0..(base - 1)
        /\ IsSome(try_find(pattern, buf)) <=> MatchOffsets(pattern, buf) # {}

\* C19 witness: both occurrences patched, nothing left after the last match,
\* and the pattern found again at offset 0 of the patched buffer
C19_Witness ==
    /\ pc = "apply_done" /\ result = Some(TRUE) /\ Len(pattern) > 0
    /\ InRegion /\ occur = NumOccurrences /\ occur = 2
    /\ IsSome(xoffset) /\ buf # orig
    /\ try_find(pattern, buf) = Some(0)

\* the positions a match at absolute offset m stores to
Targets(m) ==
    (IF IsSome(xoffset) THEN {m + Unwrap(xoffset), m + Unwrap(xoffset) + 1} ELSE {})
        \cup YTargets(m)

\* the buffer after a call that returned
C20_Buffer ==
    pc = "apply_done" =>
        /\ Len(buf) = Len(orig)
        /\ \A p \in 0..(Len(buf) - 1) :
            (\A k \in 1..Len(matches) : p \notin Targets(matches[k])) =>
                buf[p + 1] = orig[p + 1]
        /\ ((xoffset = None /\ yoffset = None) \/ occur = 0) => buf = orig

\* no step of apply_patch changes the descriptor or the two values
C20_Descriptor ==
    /\ pattern' = pattern /\ xoffset' = xoffset /\ yoffset' = yoffset
    /\ occur' = occur /\ x_res' = x_res /\ y_res' = y_res

\* C20: after any call that returns true or false the buffer length is
\* unchanged, every byte that is not at m + xoffset, m + xoffset + 1,
\* m + yoffset or m + yoffset + 1 for a matched offset m of the call has its
\* value from before the call, the descriptor is unchanged, and with both
\* offsets absent or occur = 0 the whole buffer is unchanged.
C20_OnlyTargetsChange == []C20_Buffer /\ [][C20_Descriptor]_vars

\* C20 witness: a call that patched two matches at both offsets and left a
\* byte outside their targets
C20_Witness ==
    /\ pc = "apply_done" /\ Len(matches) = 2 /\ buf # orig
    /\ IsSome(xoffset) /\ IsSome(yoffset)
    /\ \E p \in 0..(Len(buf) - 1) : \A k \in 1..2 : p \notin Targets(matches[k])

(***************************************************************************)
(* C22: the chain-probing loop of AppSection::from_items                   *)
(***************************************************************************)
\* the number of distinct keys p{i}sig of the section
NumSigKeys == Cardinality({i \in 0..255 : key(Some(i), "sig") \in DOMAIN items})

\* C22: the chain-probing loop terminates with a chain of at most the
\* number of distinct p{i}sig keys plus one patches: the 8-bit index never
\* overflows (no panic) and never wraps around to a prefix below the ones
\* it has consumed, also when the section defines every prefix p1 .. p255.
C22_IndexNeverWraps ==
    /\ secres # Some(Panic)
    /\ pc = "sec_loop" => idx = Len(patches)
    /\ Len(patches) <= NumSigKeys + 1

(***************************************************************************)
(* C21: App::apply_patch_to_file, the undo file and the target             *)
(***************************************************************************)
\* the two paths of the descriptor under way
ModPath == mod_file_path(Unwrap(game_dir), descs[iteration + 1])
UndoPath == undo_file_path(Unwrap(game_dir), descs[iteration + 1], iteration)

\* the descriptor under way has failed: the application in memory returned
\* false or panicked, or the call returned an Err
Failed ==
    \/ result = Some(FALSE)
    \/ pc = "apply_panic"
    \/ fileres # None /\ ~IsOk(Unwrap(fileres))

\* from the moment the target is opened for writing, the undo file holds the
\* content the target had when the descriptor began, and the target then
\* holds the mutated buffer
BackedUp ==
    /\ pc \in {"file_open", "file_written"} =>
        /\ UndoPath \in DOMAIN files
        /\ files[UndoPath] = files0[ModPath]
    /\ pc = "file_written" => files[ModPath] = buf

\* C21: the target is copied to the undo path before it is overwritten with
\* the mutated buffer, so whenever the target holds bytes written by this
\* descriptor the undo file holds the target's content from just before the
\* write; and a failed descriptor leaves both files as they were.
C21_BackupThenWriteOrNothing ==
    /\ BackedUp
    /\ Failed => files = files0

====
